---- MODULE Spec2Model ----
(***************************************************************************)
(* Authentication/session lifecycle of the email connector:               *)
(*   auth_manager.py  (AuthCallbackHandler, AuthManager)                  *)
(*   token_manager.py (TokenManager)                                      *)
(*   gui_app.py       (the handlers that call login() and logout())       *)
(*                                                                         *)
(* Two running copies of the application (Inst) share the machine: one    *)
(* keychain entry per user and one loopback port.  Each copy owns its     *)
(* AuthManager (callback_server, provider SDK cache) and its buttons.     *)
(***************************************************************************)
EXTENDS Integers, FiniteSets, Sequences, TLC

\* ---------------------------------------------------------------- bounds
MaxLogins == 2        \* login() invocations explored in one behaviour
MaxTokens == 2        \* access tokens the provider issues in one behaviour
MaxNow == 3299        \* the clock stops advancing here
BigStep == 3299       \* one advance of the clock, in seconds

\* ------------------------------------------------------ program constants
LoginTimeout == 300
ValidityBuffer == 300
DefaultExpiresIn == 3600

Inst == {1, 2}
Codes == {"c1"}
ExpiresIns == {ValidityBuffer, DefaultExpiresIn}
ClockSteps == {BigStep}

NoRec == [none |-> TRUE]
NoServer == [none |-> TRUE]
NoResult == [none |-> TRUE]
NoCode == "none"
NoState == 0

VARIABLES
    now,              \* time.time(), in seconds
    store,            \* keychain entry (service, username): NoRec or a token record
    port,             \* 0: LOCAL_SERVER_PORT is free; i: bound by copy i's listener
    callback_server,  \* [Inst -> NoServer or the HTTPServer object and its fields]
    sdk,              \* [Inst -> what the provider SDK caches in memory, or NoAccount]
    pc,               \* [Inst -> position of the login thread]
    flow,             \* [Inst -> state nonce of the auth code flow, NoState if none]
    start_time,       \* [Inst -> start_time of _wait_for_callback]
    auth_response,    \* [Inst -> the auth_response login() read, or NoResult]
    result,           \* [Inst -> result of the code exchange, or NoResult]
    after,            \* [Inst -> where login() continues after _stop_callback_server]
    login_button,     \* [Inst -> the login button is enabled]
    logout_button,    \* [Inst -> the logout button is enabled]
    getter,           \* the thread inside get_access_token()
    minted,           \* access tokens the provider has issued so far
    nlogins,          \* login() invocations so far
    hist,             \* [Inst -> what the current/last login() invocation did]
    tm,               \* a TokenManager used on its own: its last call and what it returned
    api,              \* a GraphClient._make_request call: its attempt, its waits, its outcome
    search,           \* the search thread of copy 1: its position and what it showed
    http,             \* an AuthCallbackHandler on its own: its request and what it did
    user_tokens,      \* the table user_tokens of the multi-user API server
    error_handler     \* an ErrorHandler: offline_mode and last_network_check

vars == <<now, store, port, callback_server, sdk, pc, flow, start_time,
          auth_response, result, after, login_button, logout_button, getter, minted,
          nlogins, hist, tm, api, search, http, user_tokens, error_handler>>

\* ------------------------------------------------------------ TokenManager

\* Python's None, as dict.get returns it for a missing key
None == "None"

\* d.get(k, default)
Get(d, k, default) == IF k \in DOMAIN d THEN d[k] ELSE default

\* a validity test that counts the boundary instant as valid
is_token_valid_inclusive(token_data, t) ==
    IF token_data = NoRec \/ "expires_at" \notin DOMAIN token_data THEN FALSE
    ELSE (token_data.expires_at - ValidityBuffer) >= t

\* token_manager.py is_token_valid, lines 132-138; t is int(time.time())
is_token_valid(token_data, t) ==
    IF token_data = NoRec \/ "expires_at" \notin DOMAIN token_data THEN FALSE
    ELSE (token_data.expires_at - ValidityBuffer) > t

\* a store_tokens that does not keep the scope
TokenDataWithoutScope(token_response, t) ==
    [access_token |-> Get(token_response, "access_token", None),
     refresh_token |-> Get(token_response, "refresh_token", None),
     expires_in |-> Get(token_response, "expires_in", DefaultExpiresIn),
     expires_at |-> t + Get(token_response, "expires_in", DefaultExpiresIn),
     scope |-> None,
     token_type |-> Get(token_response, "token_type", "Bearer"),
     stored_at |-> t]

\* token_manager.py store_tokens, lines 35-46: the record written for a token
\* response at current_time = t
TokenData(token_response, t) ==
    [access_token |-> Get(token_response, "access_token", None),
     refresh_token |-> Get(token_response, "refresh_token", None),
     expires_in |-> Get(token_response, "expires_in", DefaultExpiresIn),
     expires_at |-> t + Get(token_response, "expires_in", DefaultExpiresIn),
     scope |-> Get(token_response, "scope", None),
     token_type |-> Get(token_response, "token_type", "Bearer"),
     stored_at |-> t]

\* an entry of the keychain that is not the JSON text of a record
Corrupt == [corrupt |-> TRUE]

\* an exception on its way out of a call
Raise == [raised |-> TRUE]

\* json.loads(token_json), line 70
Decode(st) == IF st = Corrupt THEN Raise ELSE st

\* get_tokens, lines 67-75: keyring.get_password, which may raise, then
\* json.loads when there is an entry
Load(st) == {Decode(st), Raise}

\* a result that leaves get_tokens without the except branch
Unhandled(o) == o

\* get_tokens, lines 77-79: except Exception -> return None
Handled(o) == IF o = Raise THEN NoRec ELSE o

\* token_manager.py get_tokens: what it can return for the entry st
get_tokens(st) == {Handled(o) : o \in Load(st)}

\* keyring.set_password(service, username, token_json), line 50: the entry is
\* replaced by the new text
set_password_merging(old, token_data) ==
    IF old \in {NoRec, Corrupt} \/ token_data.refresh_token # None
    THEN token_data
    ELSE [token_data EXCEPT !.refresh_token = old.refresh_token]

set_password(old, token_data) == token_data

\* keyring.delete_password on entry st: PasswordDeleteError when there is no
\* entry, another exception when the keychain fails
delete_password(st, fails) ==
    IF fails THEN "error" ELSE IF st = NoRec THEN "not_found" ELSE "deleted"

\* a clear_tokens that does not catch PasswordDeleteError
NotFoundFails(outcome) == outcome = "deleted"

\* clear_tokens, lines 91-99: PasswordDeleteError is passed over
NotFoundIsSuccess(outcome) == outcome # "error"

\* token_manager.py clear_tokens, lines 88-110, on token entry st: the token
\* entry is deleted, then the cache entry (present or not); the first
\* exception that is not passed over ends the call with False
clear_tokens(st) ==
    {[ok |-> NotFoundIsSuccess(delete_password(st, f1))
               /\ NotFoundIsSuccess(delete_password(cache, f2)),
      store |-> IF NotFoundIsSuccess(delete_password(st, f1)) THEN NoRec ELSE st,
      fault |-> f1 \/ f2]
       : f1 \in BOOLEAN, f2 \in BOOLEAN, cache \in {NoRec, Corrupt}}

\* token_manager.py has_tokens, for what get_tokens returned
has_tokens(st, t) == st # NoRec /\ is_token_valid(st, t)

\* auth_manager.py is_authenticated
is_authenticated(st, t) == has_tokens(st, t)

\* -------------------------------------------------- provider SDK (msal) calls

NoAccount == [none |-> TRUE]

\* the SDK keeps an access token for `margin` seconds less than its lifetime
SdkExpiryMargin == 300

\* self.app.get_accounts(): the in-memory cache (self.cache, created empty in
\* __init__ and never loaded from the keychain) knows an account once a code
\* exchange has succeeded in this process
get_accounts(i) == sdk[i] # NoAccount

\* what the SDK caches for the account: the access token and when it expires
Cached(tok, e, t) == [tok |-> tok, expires_on |-> t + e]

\* a token result of the SDK: one from the token endpoint carries the refresh
\* token and the scope, one served from the cache does not
TokenResponse(tok, rt, e) ==
    IF rt
    THEN [access_token |-> tok, refresh_token |-> "rt", expires_in |-> e,
          scope |-> "scope", token_type |-> "Bearer"]
    ELSE [access_token |-> tok, expires_in |-> e, token_type |-> "Bearer"]

\* an SDK that never serves the access token it has cached
CacheNeverFresh(i) == FALSE

\* the cached access token is served while it is not about to expire
CacheFresh(i) == sdk[i].expires_on - now >= SdkExpiryMargin

\* self.app.acquire_token_silent(scopes, account): the possible outcomes.
\* Without an account there is nothing to look up: None.  With one: the cached
\* access token while it is fresh (no request is made); otherwise the refresh
\* token is redeemed, which yields a new token, None, or a transport exception
acquire_token_silent(i) ==
    IF ~get_accounts(i) THEN
        {[kind |-> "none", resp |-> NoResult, sdk |-> sdk[i], minted |-> minted]}
    ELSE IF CacheFresh(i) THEN
        {[kind |-> "token", sdk |-> sdk[i], minted |-> minted,
          resp |-> TokenResponse(sdk[i].tok, FALSE, sdk[i].expires_on - now)]}
    ELSE
        {[kind |-> "none", resp |-> NoResult, sdk |-> sdk[i], minted |-> minted],
         [kind |-> "raise", resp |-> NoResult, sdk |-> sdk[i], minted |-> minted]}
        \cup
        {[kind |-> "token", resp |-> TokenResponse(minted + 1, TRUE, e),
          sdk |-> Cached(minted + 1, e, now), minted |-> minted + 1]
           : e \in IF minted < MaxTokens THEN ExpiresIns ELSE {}}

\* an SDK that does not compare the states
StateUnchecked(fl, resp) == TRUE

\* self.app.acquire_token_by_auth_code_flow(flow, auth_response): the SDK
\* compares the state of the response with the state of the flow and raises
\* on a mismatch, before anything is sent to the token endpoint
StateMatches(fl, resp) == resp.st = fl

\* ... and then redeems the code: tokens, an error dict, or an exception
acquire_token_by_auth_code_flow(i) ==
    IF ~StateMatches(flow[i], auth_response[i]) THEN
        {[kind |-> "raise", sent |-> FALSE, resp |-> NoResult, sdk |-> sdk[i],
          minted |-> minted]}
    ELSE
        {[kind |-> "error", sent |-> TRUE, resp |-> NoResult, sdk |-> sdk[i],
          minted |-> minted],
         [kind |-> "raise", sent |-> TRUE, resp |-> NoResult, sdk |-> sdk[i],
          minted |-> minted]}
        \cup
        {[kind |-> "token", sent |-> TRUE, resp |-> TokenResponse(minted + 1, TRUE, e),
          sdk |-> Cached(minted + 1, e, now), minted |-> minted + 1]
           : e \in IF minted < MaxTokens THEN ExpiresIns ELSE {}}

\* --------------------------------------------------- AuthCallbackHandler

\* the query parameters of one inbound request: the provider's redirect with a
\* code and a state, its redirect with an error, or a request with neither (a
\* favicon request, a bare GET).  NoState stands for a missing state and for
\* any state that is not this flow's
Requests(i) ==
    [code : Codes, error : {FALSE}, st : {NoState, flow[i]}]
      \cup [code : {NoCode}, error : BOOLEAN, st : {NoState}]

\* _start_callback_server, lines 387-391: the attributes of a new HTTPServer
NewServer ==
    [auth_code |-> NoCode, auth_error |-> "none", auth_response |-> NoResult,
     callback_received |-> FALSE]

\* do_GET, lines 32-42, 72-76, 103-106: what one request writes to self.server
Branch(srv, req) ==
    IF req.code # NoCode THEN
        [srv EXCEPT !.auth_response = req, !.auth_code = req.code, !.callback_received = TRUE]
    ELSE IF req.error THEN
        [srv EXCEPT !.auth_error = "provider", !.callback_received = TRUE]
    ELSE
        [srv EXCEPT !.auth_error = "invalid", !.callback_received = TRUE]

\* do_GET: the attributes of self.server after one request is handled.
\* broken: writing the response raises (the client has gone), which runs the
\* except branch, lines 133-136
ServerAfterGet(srv, req, broken) ==
    IF broken
    THEN [Branch(srv, req) EXCEPT !.auth_error = "handler", !.callback_received = TRUE]
    ELSE Branch(srv, req)

\* one request reaches the listener of copy i and is handled by its thread;
\* `in_time` notes, until the wait ends, that login() was waiting and its
\* timeout had not elapsed
do_GET(i) ==
    /\ callback_server[i] # NoServer
    /\ \E req \in Requests(i), broken \in BOOLEAN :
         callback_server' =
            [callback_server EXCEPT ![i] = ServerAfterGet(callback_server[i], req, broken)]
    /\ hist' = [hist EXCEPT ![i].in_time =
                   @ \/ (pc[i] = "wait" /\ now - start_time[i] < LoginTimeout)]
    /\ UNCHANGED <<error_handler, user_tokens, http, search, tm, api, now, store, port, sdk, pc, flow, start_time, auth_response, result,
                   after, login_button, logout_button, getter, minted, nlogins>>

\* ------------------------------------------------------------ AuthManager

\* what a login() invocation has done so far: `starts`, `opens`, `exchanges`
\* count its HTTPServer constructions that succeeded, its webbrowser.open
\* calls and its acquire_token_by_auth_code_flow calls
NewHist ==
    [started |-> FALSE, opened |-> FALSE, timed_out |-> FALSE, exchanged |-> FALSE,
     exchanged_at |-> 0, stored |-> FALSE, early |-> FALSE, had_valid |-> FALSE,
     outcome |-> "running", bind_failed |-> FALSE, callback_error |-> FALSE,
     starts |-> 0, opens |-> 0, exchanges |-> 0, in_time |-> FALSE]

\* login() returns ok: callback(ok, message), which is gui_app.py
\* on_login_complete (lines 300-318), then return
Return(i, ok) ==
    /\ pc' = [pc EXCEPT ![i] = "done"]
    /\ login_button' = [login_button EXCEPT ![i] = ~ok]
    /\ logout_button' = [logout_button EXCEPT ![i] = IF ok THEN TRUE ELSE @]
    /\ hist' = [hist EXCEPT ![i].outcome = IF ok THEN "true" ELSE "false"]

\* login() calls self._stop_callback_server() and then goes on at `next`
Stop(i, next) ==
    /\ pc' = [pc EXCEPT ![i] = "stop"]
    /\ after' = [after EXCEPT ![i] = next]

\* gui_app.py handle_login, lines 290-298: the click disables the button and
\* starts the thread that runs login(), whose first statement (line 208) is
\* existing_tokens = self.token_manager.get_tokens()
handle_login(i) ==
    /\ login_button[i]
    /\ pc[i] = "idle"
    /\ nlogins < MaxLogins
    /\ login_button' = [login_button EXCEPT ![i] = FALSE]
    /\ \E existing_tokens \in get_tokens(store) :
         /\ pc' = [pc EXCEPT ![i] = IF existing_tokens # NoRec THEN "silent" ELSE "start"]
         /\ hist' = [hist EXCEPT ![i] =
                        [NewHist EXCEPT !.had_valid = has_tokens(existing_tokens, now)]]
    /\ nlogins' = nlogins + 1
    /\ UNCHANGED <<error_handler, user_tokens, http, search, tm, api, now, store, port, callback_server, sdk, flow, start_time, auth_response,
                   result, after, logout_button, getter, minted>>

\* login(), lines 211-223: acquire_token_silent for accounts[0], or for None;
\* an exception goes to lines 318-324
login_silent(i) ==
    /\ pc[i] = "silent"
    /\ \E o \in acquire_token_silent(i) :
         /\ sdk' = [sdk EXCEPT ![i] = o.sdk]
         /\ minted' = o.minted
         /\ CASE o.kind = "token" ->
                   /\ pc' = [pc EXCEPT ![i] = "done"]
                   /\ login_button' = [login_button EXCEPT ![i] = FALSE]
                   /\ logout_button' = [logout_button EXCEPT ![i] = TRUE]
                   /\ hist' = [hist EXCEPT ![i].early = TRUE, ![i].outcome = "true"]
                   /\ UNCHANGED after
              [] o.kind = "none" ->
                   /\ pc' = [pc EXCEPT ![i] = "start"]
                   /\ UNCHANGED <<after, login_button, logout_button, hist>>
              [] o.kind = "raise" ->
                   /\ Stop(i, "return_false")
                   /\ UNCHANGED <<login_button, logout_button, hist>>
    /\ UNCHANGED <<error_handler, user_tokens, http, search, tm, api, now, store, port, callback_server, flow, start_time, auth_response,
                   result, getter, nlogins>>

\* a bind that succeeds although a listener holds the port
CanBindAnyway(p) == BOOLEAN

\* the HTTPServer constructor binds LOCAL_SERVER_PORT: it raises when a
\* listener of this application holds the port; a foreign process may hold it
\* too
CanBind(p) == IF p = 0 THEN BOOLEAN ELSE {FALSE}

\* a login() that goes on when the server could not be started
start_callback_server_unchecked(i) ==
    /\ pc[i] = "start"
    /\ \E bound \in CanBind(port) :
         IF bound
         THEN /\ port' = i
              /\ callback_server' = [callback_server EXCEPT ![i] = NewServer]
              /\ hist' = [hist EXCEPT ![i].started = TRUE, ![i].starts = @ + 1]
         ELSE /\ hist' = [hist EXCEPT ![i].bind_failed = TRUE]
              /\ UNCHANGED <<port, callback_server>>
    /\ pc' = [pc EXCEPT ![i] = "flow"]
    /\ UNCHANGED <<error_handler, user_tokens, http, search, tm, api, now, store, sdk, flow, start_time, auth_response,
                   result, after, login_button, logout_button, getter, minted, nlogins>>

\* _start_callback_server, lines 375-407, and login() lines 226-231: when the
\* server cannot be started login() returns False
start_callback_server(i) ==
    /\ pc[i] = "start"
    /\ \E bound \in CanBind(port) :
         IF bound
         THEN /\ port' = i
              /\ callback_server' = [callback_server EXCEPT ![i] = NewServer]
              /\ pc' = [pc EXCEPT ![i] = "flow"]
              /\ hist' = [hist EXCEPT ![i].started = TRUE, ![i].starts = @ + 1]
              /\ UNCHANGED <<login_button, logout_button>>
         ELSE /\ pc' = [pc EXCEPT ![i] = "done"]
              /\ login_button' = [login_button EXCEPT ![i] = TRUE]
              /\ hist' = [hist EXCEPT ![i].bind_failed = TRUE, ![i].outcome = "false"]
              /\ UNCHANGED <<port, callback_server, logout_button>>
    /\ UNCHANGED <<error_handler, user_tokens, http, search, tm, api, now, store, sdk, flow, start_time, auth_response, result, after, getter,
                   minted, nlogins>>

\* login(), lines 234-253: initiate_auth_code_flow (its state nonce is fresh),
\* webbrowser.open, and the start of _wait_for_callback; without auth_uri,
\* or on an exception, the server is stopped and login() returns False
initiate_auth_code_flow(i) ==
    /\ pc[i] = "flow"
    /\ \/ /\ flow' = [flow EXCEPT ![i] = nlogins]
          /\ start_time' = [start_time EXCEPT ![i] = now]
          /\ pc' = [pc EXCEPT ![i] = "wait"]
          /\ hist' = [hist EXCEPT ![i].opened = TRUE, ![i].opens = @ + 1]
          /\ UNCHANGED after
       \/ /\ Stop(i, "return_false")
          /\ UNCHANGED <<flow, start_time, hist>>
    /\ UNCHANGED <<error_handler, user_tokens, http, search, tm, api, now, store, port, callback_server, sdk, auth_response, result,
                   login_button, logout_button, getter, minted, nlogins>>

\* _wait_for_callback, line 424: the loop runs while the timeout has not elapsed
TimedOut(i) == now - start_time[i] >= LoginTimeout

\* a _wait_for_callback that accepts a callback it sees after the timeout
wait_accepting_late(i) ==
    /\ pc[i] = "wait"
    /\ IF callback_server[i].callback_received
       THEN /\ pc' = [pc EXCEPT ![i] = "check"]
            /\ hist' = [hist EXCEPT ![i].timed_out = TimedOut(i), ![i].in_time = FALSE]
            /\ UNCHANGED after
       ELSE /\ TimedOut(i)
            /\ Stop(i, "return_false")
            /\ hist' = [hist EXCEPT ![i].timed_out = TRUE, ![i].in_time = FALSE]
    /\ start_time' = [start_time EXCEPT ![i] = 0]
    /\ UNCHANGED <<error_handler, user_tokens, http, search, tm, api, now, store, port, callback_server, sdk, flow, auth_response, result,
                   login_button, logout_button, getter, minted, nlogins>>

\* _wait_for_callback, lines 420-431, and login() lines 253-260: the poll of
\* the loop that ends it
wait_for_callback(i) ==
    /\ pc[i] = "wait"
    /\ IF ~TimedOut(i)
       THEN /\ callback_server[i] # NoServer
            /\ callback_server[i].callback_received
            /\ pc' = [pc EXCEPT ![i] = "check"]
            /\ hist' = [hist EXCEPT ![i].in_time = FALSE]
            /\ UNCHANGED after
       ELSE /\ Stop(i, "return_false")
            /\ hist' = [hist EXCEPT ![i].timed_out = TRUE, ![i].in_time = FALSE]
    /\ start_time' = [start_time EXCEPT ![i] = 0]
    /\ UNCHANGED <<error_handler, user_tokens, http, search, tm, api, now, store, port, callback_server, sdk, flow, auth_response, result,
                   login_button, logout_button, getter, minted, nlogins>>

\* a login() that starts the flow again after a callback without a usable code
login_check_restarting(i) ==
    /\ pc[i] = "check"
    /\ IF callback_server[i].auth_error # "none" \/ callback_server[i].auth_code = NoCode
       THEN /\ pc' = [pc EXCEPT ![i] = "flow"]
            /\ hist' = [hist EXCEPT ![i].callback_error = TRUE]
            /\ UNCHANGED auth_response
       ELSE /\ pc' = [pc EXCEPT ![i] = "exchange"]
            /\ auth_response' = [auth_response EXCEPT ![i] = callback_server[i].auth_response]
            /\ UNCHANGED hist
    /\ UNCHANGED <<error_handler, user_tokens, http, search, tm, api, now, store, port, callback_server, sdk, flow,
                   start_time, result, after, login_button, logout_button, getter, minted,
                   nlogins>>

\* login(), lines 263-283: auth_error first, then a missing auth_code, then
\* auth_response is read from the server
login_check(i) ==
    /\ pc[i] = "check"
    /\ IF callback_server[i].auth_error # "none" \/ callback_server[i].auth_code = NoCode
       THEN /\ Stop(i, "return_false")
            /\ hist' = [hist EXCEPT ![i].callback_error = TRUE]
            /\ UNCHANGED auth_response
       ELSE /\ pc' = [pc EXCEPT ![i] = "exchange"]
            /\ auth_response' = [auth_response EXCEPT ![i] = callback_server[i].auth_response]
            /\ UNCHANGED <<after, hist>>
    /\ UNCHANGED <<error_handler, user_tokens, http, search, tm, api, now, store, port, callback_server, sdk, flow, start_time, result,
                   login_button, logout_button, getter, minted, nlogins>>

\* a login() that repeats an exchange that gave no token
login_exchange_retrying(i) ==
    /\ pc[i] = "exchange"
    /\ \E o \in acquire_token_by_auth_code_flow(i) :
         /\ sdk' = [sdk EXCEPT ![i] = o.sdk]
         /\ minted' = o.minted
         /\ hist' = [hist EXCEPT ![i].exchanged = o.sent, ![i].exchanged_at = now,
                                 ![i].exchanges = @ + 1]
         /\ result' = [result EXCEPT ![i] = o.resp]
         /\ IF o.kind = "token" THEN Stop(i, "store") ELSE UNCHANGED <<pc, after>>
    /\ UNCHANGED <<error_handler, user_tokens, http, search, tm, api, now, store, port, callback_server, flow, start_time,
                   auth_response, login_button, logout_button, getter, nlogins>>

\* login(), lines 285-296: the exchange, then _stop_callback_server; an
\* exception goes to lines 318-324, a result without access_token to 311-316
login_exchange(i) ==
    /\ pc[i] = "exchange"
    /\ \E o \in acquire_token_by_auth_code_flow(i) :
         /\ sdk' = [sdk EXCEPT ![i] = o.sdk]
         /\ minted' = o.minted
         /\ hist' = [hist EXCEPT ![i].exchanged = o.sent, ![i].exchanged_at = now,
                                 ![i].exchanges = @ + 1]
         /\ result' = [result EXCEPT ![i] = o.resp]
         /\ Stop(i, IF o.kind = "token" THEN "store" ELSE "return_false")
    /\ UNCHANGED <<error_handler, user_tokens, http, search, tm, api, now, store, port, callback_server, flow, start_time, auth_response,
                   login_button, logout_button, getter, nlogins>>

\* a _stop_callback_server that leaves the server as it is
stop_without_close(i) ==
    /\ pc[i] = "stop"
    /\ IF after[i] = "store"
       THEN /\ pc' = [pc EXCEPT ![i] = "store"]
            /\ UNCHANGED <<login_button, logout_button, hist>>
       ELSE Return(i, FALSE)
    /\ UNCHANGED <<error_handler, user_tokens, http, search, tm, api, now, store, port, callback_server, sdk, flow, start_time, auth_response,
                   result, after, getter, minted, nlogins>>

\* a stop that closes the port whoever listens on it
StopAnyListener(server, p, i) == [server |-> NoServer, port |-> 0, raised |-> FALSE]

\* _stop_callback_server, lines 409-418, for the server object `server` of
\* copy i while copy `p` listens on the port (0: nobody): shutdown() and
\* server_close(), which releases the port, and self.callback_server = None;
\* nothing when self.callback_server is None (line 411)
StopServer(server, p, i) ==
    IF server = NoServer
    THEN [server |-> NoServer, port |-> p, raised |-> FALSE]
    ELSE [server |-> NoServer, port |-> IF p = i THEN 0 ELSE p, raised |-> FALSE]

\* login() calls _stop_callback_server.  Then it stores the tokens, or reports
\* the failure: callback(False, error_msg); return False
stop_callback_server(i) ==
    /\ pc[i] = "stop"
    /\ port' = StopServer(callback_server[i], port, i).port
    /\ callback_server' =
         [callback_server EXCEPT ![i] = StopServer(callback_server[i], port, i).server]
    /\ IF after[i] = "store"
       THEN /\ pc' = [pc EXCEPT ![i] = "store"]
            /\ UNCHANGED <<login_button, logout_button, hist>>
       ELSE Return(i, FALSE)
    /\ UNCHANGED <<error_handler, user_tokens, http, search, tm, api, now, store, sdk, flow, start_time, auth_response, result, after, getter,
                   minted, nlogins>>

\* token_manager.py store_tokens, lines 33-57: the keychain takes the record,
\* or raises and False is returned
KeychainAccepts == BOOLEAN

\* a login() that ignores what store_tokens returns
login_store_unchecked(i) ==
    /\ pc[i] = "store"
    /\ \E written \in KeychainAccepts :
         /\ store' = IF written THEN set_password(store, TokenData(result[i], now)) ELSE store
         /\ hist' = [hist EXCEPT ![i].stored = written, ![i].outcome = "true"]
    /\ pc' = [pc EXCEPT ![i] = "done"]
    /\ login_button' = [login_button EXCEPT ![i] = FALSE]
    /\ logout_button' = [logout_button EXCEPT ![i] = TRUE]
    /\ UNCHANGED <<error_handler, user_tokens, http, search, tm, api, now, port, callback_server, sdk, flow, start_time, auth_response,
                   result, after, getter, minted, nlogins>>

\* a store_tokens that writes the record and then reports a failure
login_store_then_fail(i) ==
    /\ pc[i] = "store"
    /\ \E written \in KeychainAccepts :
         /\ store' = set_password(store, TokenData(result[i], now))
         /\ pc' = [pc EXCEPT ![i] = "done"]
         /\ login_button' = [login_button EXCEPT ![i] = ~written]
         /\ logout_button' = [logout_button EXCEPT ![i] = IF written THEN TRUE ELSE @]
         /\ hist' = [hist EXCEPT ![i].stored = written,
                                 ![i].outcome = IF written THEN "true" ELSE "false"]
    /\ UNCHANGED <<error_handler, user_tokens, http, search, tm, api, now, port, callback_server, sdk, flow, start_time, auth_response,
                   result, after, getter, minted, nlogins>>

\* login(), lines 298-310: store_tokens(result) decides what login() returns
login_store(i) ==
    /\ pc[i] = "store"
    /\ \E written \in KeychainAccepts :
         /\ store' = IF written THEN set_password(store, TokenData(result[i], now)) ELSE store
         /\ pc' = [pc EXCEPT ![i] = "done"]
         /\ login_button' = [login_button EXCEPT ![i] = ~written]
         /\ logout_button' = [logout_button EXCEPT ![i] = IF written THEN TRUE ELSE @]
         /\ hist' = [hist EXCEPT ![i].stored = written,
                                 ![i].outcome = IF written THEN "true" ELSE "false"]
    /\ UNCHANGED <<error_handler, user_tokens, http, search, tm, api, now, port, callback_server, sdk, flow, start_time, auth_response,
                   result, after, getter, minted, nlogins>>

\* gui_app.py login_thread, line 296: login() has returned and the thread ends
login_thread_exit(i) ==
    /\ pc[i] = "done"
    /\ pc' = [pc EXCEPT ![i] = "idle"]
    /\ hist' = [hist EXCEPT ![i] = NewHist]
    /\ flow' = [flow EXCEPT ![i] = NoState]
    /\ auth_response' = [auth_response EXCEPT ![i] = NoResult]
    /\ result' = [result EXCEPT ![i] = NoResult]
    /\ UNCHANGED <<error_handler, user_tokens, http, search, tm, api, now, store, port, callback_server, sdk, start_time, after,
                   login_button, logout_button, getter, minted, nlogins>>

\* get_access_token() has not been called, or has returned `value` (0: None)
IdleGetter == [pc |-> "idle", inst |-> 0, stored |-> NoRec, value |-> 0, via |-> "never",
               at |-> 0, stale |-> FALSE, account |-> FALSE, tried |-> FALSE]

GetterReturn(value, via) ==
    [getter EXCEPT !.pc = "done", !.value = value, !.via = via, !.at = now]

\* get_access_token(), lines 349-350: get_tokens() and the first validity test
get_access_token(i) ==
    /\ getter.pc = "idle"
    /\ \E stored_tokens \in get_tokens(store) :
         LET valid == stored_tokens # NoRec /\ is_token_valid(stored_tokens, now)
             g == [IdleGetter EXCEPT !.inst = i, !.stored = stored_tokens,
                                     !.account = get_accounts(i),
                                     !.stale = stored_tokens # NoRec /\ ~valid]
         IN  getter' = IF valid
                       THEN [g EXCEPT !.pc = "silent"]
                       ELSE [g EXCEPT !.pc = "done", !.via = "none", !.at = now]
    /\ UNCHANGED <<error_handler, user_tokens, http, search, tm, api, now, store, port, callback_server, sdk, pc, flow, start_time,
                   auth_response, result, after, login_button, logout_button, minted,
                   nlogins, hist>>

\* get_access_token(), lines 352-362: with an account, acquire_token_silent;
\* a token is stored (store_tokens may fail, its result is ignored) and returned
get_silent ==
    /\ getter.pc = "silent"
    /\ LET i == getter.inst IN
       IF ~get_accounts(i)
       THEN /\ getter' = [getter EXCEPT !.pc = "recheck"]
            /\ UNCHANGED <<store, sdk, minted>>
       ELSE \E o \in acquire_token_silent(i) :
              /\ sdk' = [sdk EXCEPT ![i] = o.sdk]
              /\ minted' = o.minted
              /\ CASE o.kind = "token" ->
                        /\ store' \in {set_password(store, TokenData(o.resp, now)), store}
                        /\ getter' = [GetterReturn(o.resp.access_token, "silent")
                                        EXCEPT !.tried = TRUE]
                   [] o.kind = "none" ->
                        /\ getter' = [getter EXCEPT !.pc = "recheck", !.tried = TRUE]
                        /\ UNCHANGED store
                   [] o.kind = "raise" ->
                        /\ getter' = [GetterReturn(0, "none") EXCEPT !.tried = TRUE]
                        /\ UNCHANGED store
    /\ UNCHANGED <<error_handler, user_tokens, http, search, tm, api, now, port, callback_server, pc, flow, start_time,
                   auth_response, result, after, login_button, logout_button, nlogins, hist>>

\* a second test that always passes
AlwaysValid(g) == TRUE

\* get_access_token(), lines 365-366: the stored token, when it is still valid
StillValid(g) == is_token_valid(g.stored, now)

\* get_access_token(), lines 364-369
get_stored ==
    /\ getter.pc = "recheck"
    /\ getter' = IF StillValid(getter)
                 THEN GetterReturn(getter.stored.access_token, "stored")
                 ELSE GetterReturn(0, "none")
    /\ UNCHANGED <<error_handler, user_tokens, http, search, tm, api, now, store, port, callback_server, sdk, pc, flow, start_time,
                   auth_response, result, after, login_button, logout_button, minted,
                   nlogins, hist>>

\* graph_client.py _get_headers, line 27: the caller has the value
get_return ==
    /\ getter.pc = "done"
    /\ getter' = IdleGetter
    /\ UNCHANGED <<error_handler, user_tokens, http, search, tm, api, now, store, port, callback_server, sdk, pc, flow, start_time,
                   auth_response, result, after, login_button, logout_button, minted,
                   nlogins, hist>>

\* gui_app.py handle_logout -> logout() -> clear_tokens(): the token entry is
\* deleted, then the cache entry; a keychain failure other than "not found"
\* at either makes it return False
handle_logout(i) ==
    /\ logout_button[i]
    /\ \E o \in clear_tokens(store) :
         /\ store' = o.store
         /\ login_button' = [login_button EXCEPT ![i] = IF o.ok THEN TRUE ELSE @]
         /\ logout_button' = [logout_button EXCEPT ![i] = IF o.ok THEN FALSE ELSE @]
    /\ UNCHANGED <<error_handler, user_tokens, http, search, tm, api, now, port, callback_server, sdk, pc, flow, start_time, auth_response,
                   result, after, getter, minted, nlogins, hist>>

\* time passes
Tick ==
    /\ \E d \in ClockSteps : now + d <= MaxNow /\ now' = now + d
    /\ UNCHANGED <<error_handler, user_tokens, http, search, tm, api, store, port, callback_server, sdk, pc, flow, start_time,
                   auth_response, result, after, login_button, logout_button, getter,
                   minted, nlogins, hist>>

\* no call has been made
NoCall == [op |-> "none"]

\* multi_user_api_server.py init_database, lines 41-56: the table user_tokens
\* as the set of its rows, empty when the database file is created
EmptyTable == {}

\* error_handler.py line 44
NetworkCheckInterval == 30

\* error_handler.py ErrorHandler.__init__, lines 41-44.  last_network_check is
\* 0 on the scale of time.time(), where the program starts decades later; on
\* the clock of the model, which starts at 0, that is any time at least one
\* interval back
NewErrorHandler == [offline_mode |-> FALSE, last_network_check |-> 0 - NetworkCheckInterval]

\* what the keychain may hold when the application starts: nothing, or a record
\* written by an earlier run (token 1), stale or still valid
InitialStores ==
    {NoRec} \cup {[access_token |-> 1, refresh_token |-> "rt", expires_in |-> DefaultExpiresIn,
                   expires_at |-> e, scope |-> "scope", token_type |-> "Bearer",
                   stored_at |-> e - DefaultExpiresIn]
                  : e \in {ValidityBuffer, DefaultExpiresIn - 1}}

\* after AuthManager.__init__ (lines 162-183) and gui_app.py check_auth_status
\* (lines 264-280) in each copy
Init ==
    /\ now = 0
    /\ store \in InitialStores
    /\ port = 0
    /\ callback_server = [i \in Inst |-> NoServer]
    /\ sdk = [i \in Inst |-> NoAccount]
    /\ pc = [i \in Inst |-> "idle"]
    /\ flow = [i \in Inst |-> NoState]
    /\ start_time = [i \in Inst |-> 0]
    /\ auth_response = [i \in Inst |-> NoResult]
    /\ result = [i \in Inst |-> NoResult]
    /\ after = [i \in Inst |-> "return_false"]
    /\ \E seen \in [Inst -> get_tokens(store)] :
         /\ login_button = [i \in Inst |-> ~is_authenticated(seen[i], now)]
         /\ logout_button = [i \in Inst |-> is_authenticated(seen[i], now)]
    /\ getter = IdleGetter
    /\ minted = IF store = NoRec THEN 0 ELSE 1
    /\ nlogins = 0
    /\ hist = [i \in Inst |-> NewHist]
    /\ tm = NoCall
    /\ api = NoCall
    /\ search = NoCall
    /\ http = NoCall
    /\ user_tokens = EmptyTable
    /\ error_handler = NewErrorHandler

\* the steps of copy i: its login thread and its callback listener
LoginStep(i) ==
    \/ handle_login(i)
    \/ login_silent(i)
    \/ start_callback_server(i)
    \/ initiate_auth_code_flow(i)
    \/ wait_for_callback(i)
    \/ login_check(i)
    \/ login_exchange(i)
    \/ stop_callback_server(i)
    \/ login_store(i)
    \/ login_thread_exit(i)
    \/ do_GET(i)
    \/ handle_logout(i)

\* a thread of copy i that asks for the access token
GetterStep(i) ==
    \/ get_access_token(i)
    \/ get_silent
    \/ get_stored
    \/ get_return

\* two copies of the application logging in and out
NextLogin == (\E i \in Inst : LoginStep(i)) \/ Tick

SpecLogin == Init /\ [][NextLogin]_vars

\* one copy logging in and out while a thread asks for the access token
NextToken == LoginStep(1) \/ GetterStep(1) \/ Tick

SpecToken == Init /\ [][NextToken]_vars

\* one copy logging in, with a clock that goes on and a login thread that is
\* scheduled again and again: the 0.5 s poll of _wait_for_callback (lines
\* 424-428) runs as long as login() waits
NextWait == LoginStep(1) \/ Tick

SpecWait ==
    /\ Init /\ [][NextWait]_vars
    /\ WF_vars(Tick) /\ WF_vars(wait_for_callback(1))

\* ------------------------------------------- the TokenManager on its own
\* test_app.py test_token_manager and test_fixes.py test_token_manager call
\* the TokenManager directly; here every call and its result are kept in tm

MaxTokenIds == 2      \* access tokens the callers of store_tokens hand in

\* the clock in half seconds, and int(time.time()) for it
HalfSeconds(t, frac) == 2 * t + frac
IntTime(h) == h \div 2

\* the arguments of is_token_valid at clock t: no record, a record without
\* expires_at, and records expiring around t + 300
ValidityInputs(t) ==
    {NoRec, [access_token |-> 1]}
      \cup {[access_token |-> 1, expires_at |-> t + ValidityBuffer + d] : d \in -1..1}

\* the arguments of store_tokens: token results of the SDK, and the dictionary
\* of test_app.py lines 114-118, with and without expires_in
StoreInputs ==
    {TokenResponse(tok, rt, e) : tok \in 1..MaxTokenIds, rt \in BOOLEAN, e \in ExpiresIns}
      \cup {[access_token |-> tok, refresh_token |-> "rt", expires_in |-> DefaultExpiresIn]
              : tok \in 1..MaxTokenIds}
      \cup {[access_token |-> tok, refresh_token |-> "rt"] : tok \in 1..MaxTokenIds}

\* no token response has been stored since the entry was last cleared
NothingWritten == [none |-> TRUE]

NoTmCall ==
    [op |-> "none", arg |-> NoRec, result |-> NoRec, at |-> 0, fault |-> FALSE,
     prev |-> "none", written |-> NothingWritten, written_at |-> 0,
     before |-> NothingWritten]

\* is_token_valid(token_data) at some instant of the current second
tm_is_token_valid ==
    /\ \E token_data \in ValidityInputs(now), frac \in 0..1 :
         tm' = [tm EXCEPT !.op = "is_token_valid", !.prev = tm.op, !.arg = token_data,
                          !.at = HalfSeconds(now, frac), !.fault = FALSE,
                          !.result = is_token_valid(token_data,
                                                    IntTime(HalfSeconds(now, frac)))]
    /\ UNCHANGED <<now, store, port, callback_server, sdk, pc, flow, start_time,
                   auth_response, result, after, login_button, logout_button, getter,
                   minted, nlogins, hist, api, search, http, user_tokens, error_handler>>

\* store_tokens(token_response), lines 33-57
tm_store_tokens ==
    /\ \E token_response \in StoreInputs, written \in KeychainAccepts :
         /\ store' = IF written THEN set_password(store, TokenData(token_response, now))
                     ELSE store
         /\ tm' = [tm EXCEPT !.op = "store_tokens", !.prev = tm.op, !.arg = token_response,
                             !.at = now, !.fault = ~written, !.result = written,
                             !.written = IF written THEN token_response ELSE @,
                             !.written_at = IF written THEN now ELSE @,
                             !.before = IF written THEN tm.written ELSE @]
    /\ UNCHANGED <<now, port, callback_server, sdk, pc, flow, start_time,
                   auth_response, result, after, login_button, logout_button, getter,
                   minted, nlogins, hist, api, search, http, user_tokens, error_handler>>

\* get_tokens(), lines 59-79
tm_get_tokens ==
    /\ \E o \in Load(store) :
         tm' = [tm EXCEPT !.op = "get_tokens", !.prev = tm.op, !.arg = store, !.at = now,
                          !.fault = (o = Raise /\ store # Corrupt),
                          !.result = Handled(o)]
    /\ UNCHANGED <<now, store, port, callback_server, sdk, pc, flow, start_time,
                   auth_response, result, after, login_button, logout_button, getter,
                   minted, nlogins, hist, api, search, http, user_tokens, error_handler>>

\* has_tokens(), lines 112-120, which is also AuthManager.is_authenticated()
tm_has_tokens ==
    /\ \E o \in Load(store) :
         tm' = [tm EXCEPT !.op = "has_tokens", !.prev = tm.op, !.arg = store, !.at = now,
                          !.fault = (o = Raise /\ store # Corrupt),
                          !.result = is_authenticated(Handled(o), now)]
    /\ UNCHANGED <<now, store, port, callback_server, sdk, pc, flow, start_time,
                   auth_response, result, after, login_button, logout_button, getter,
                   minted, nlogins, hist, api, search, http, user_tokens, error_handler>>

\* clear_tokens(), lines 81-110
tm_clear_tokens ==
    /\ \E o \in clear_tokens(store) :
         /\ store' = o.store
         /\ tm' = [tm EXCEPT !.op = "clear_tokens", !.prev = tm.op, !.arg = store,
                             !.at = now, !.fault = o.fault, !.result = o.ok,
                             !.written = IF o.store = NoRec THEN NothingWritten ELSE @,
                             !.before = IF o.store = NoRec THEN NothingWritten ELSE @]
    /\ UNCHANGED <<now, port, callback_server, sdk, pc, flow, start_time,
                   auth_response, result, after, login_button, logout_button, getter,
                   minted, nlogins, hist, api, search, http, user_tokens, error_handler>>

\* the keychain entry a TokenManager may find: nothing, an earlier record, or
\* text that is not a record
InitStore ==
    /\ now = 0
    /\ store \in InitialStores \cup {Corrupt}
    /\ port = 0
    /\ callback_server = [i \in Inst |-> NoServer]
    /\ sdk = [i \in Inst |-> NoAccount]
    /\ pc = [i \in Inst |-> "idle"]
    /\ flow = [i \in Inst |-> NoState]
    /\ start_time = [i \in Inst |-> 0]
    /\ auth_response = [i \in Inst |-> NoResult]
    /\ result = [i \in Inst |-> NoResult]
    /\ after = [i \in Inst |-> "return_false"]
    /\ login_button = [i \in Inst |-> TRUE]
    /\ logout_button = [i \in Inst |-> FALSE]
    /\ getter = IdleGetter
    /\ minted = 0
    /\ nlogins = 0
    /\ hist = [i \in Inst |-> NewHist]
    /\ tm = NoTmCall
    /\ api = NoCall
    /\ search = NoCall
    /\ http = NoCall
    /\ user_tokens = EmptyTable
    /\ error_handler = NewErrorHandler

NextStore ==
    \/ tm_is_token_valid
    \/ tm_store_tokens
    \/ tm_get_tokens
    \/ tm_has_tokens
    \/ tm_clear_tokens
    \/ Tick

SpecStore == InitStore /\ [][NextStore]_vars

\* ----------------------------------------------- GraphClient._make_request

MaxCalls == 2   \* _make_request calls made one after the other

MaxStops == 3   \* _stop_callback_server calls in a row

MaxDecoratorRetries == 2   \* the largest max_retries given to retry_on_error

MaxShortNow == 62   \* how far the clock goes in steps of about 30 s

MaxRetriesLarge == 7   \* a max_retries large enough for the backoff cap to apply

\* graph_client.py line 37 (max_retries), 66 (Retry-After), 76 and 91 (caps)
DefaultMaxRetries == 3
DefaultRetryAfter == 60
ServiceBackoffCap == 60
NetworkBackoffCap == 30

MaxRetriesInputs == {DefaultMaxRetries, MaxRetriesLarge}

Min(a, b) == IF a < b THEN a ELSE b

RECURSIVE Pow2(_)
Pow2(n) == IF n = 0 THEN 1 ELSE 2 * Pow2(n - 1)

\* int(x) of line 66: a string of digits is its number, any other string
\* raises ValueError
int(x) ==
    CASE x = "60" -> [ok |-> TRUE, value |-> DefaultRetryAfter]
      [] x = "2" -> [ok |-> TRUE, value |-> 2]
      [] OTHER -> [ok |-> FALSE, value |-> 0]

\* response.headers.get('Retry-After', 60), line 66: an absent header reads 60
RetryAfterHeader(response) ==
    IF response.retry_after = None THEN "60" ELSE response.retry_after

\* what session.request gives: a response, or a RequestException (timeout,
\* connection failure)
\* response.text: the body as text
Text(status) == IF status < 400 THEN "value" ELSE "error body"

Response(status, retry_after, json) ==
    [raised |-> FALSE, status |-> status, retry_after |-> retry_after, json |-> json,
     text |-> Text(status)]

RequestException ==
    [raised |-> TRUE, status |-> 0, retry_after |-> None, json |-> FALSE, text |-> ""]

NoResponse ==
    [raised |-> FALSE, status |-> 0, retry_after |-> None, json |-> FALSE, text |-> ""]

\* the Retry-After headers of a 429: absent, seconds, an HTTP date
RetryAfterHeaders == {None, "2", "Fri, 31 Dec 1999 23:59:59 GMT"}

\* the outcomes of line 58; `json` tells whether the body of a 2xx decodes
session_request ==
    {RequestException}
    \cup {Response(status, None, TRUE) : status \in {401, 403, 404, 500, 503}}
    \cup {Response(200, None, json) : json \in BOOLEAN}
    \cup {Response(429, h, TRUE) : h \in RetryAfterHeaders}

\* what an attempt ends in; `status` and `text` are the response status and
\* body that the message of a raised exception quotes (0 and "": none)
Raised(error) == [do |-> "raise", error |-> error, wait |-> 0, status |-> 0, text |-> ""]
Retry(wait) == [do |-> "retry", error |-> "", wait |-> wait, status |-> 0, text |-> ""]
Returned == [do |-> "return", error |-> "", wait |-> 0, status |-> 0, text |-> ""]

\* lines 82-84: f"Graph API request failed: {response.status_code} - {response.text}"
Failed(response) ==
    [do |-> "raise", error |-> "Graph API request failed", wait |-> 0,
     status |-> response.status, text |-> response.text]

\* a 401 handled like a 503
on_401_retrying(attempt, max_retries) ==
    IF attempt < max_retries
    THEN Retry(Min(Pow2(attempt), ServiceBackoffCap))
    ELSE Raised("Authentication failed - token may be expired")

\* lines 60-61
on_401(attempt, max_retries) == Raised("Authentication failed - token may be expired")

\* a 429 that waits the default whatever the header says
on_429_default_wait(response, attempt, max_retries) ==
    IF attempt < max_retries
    THEN Retry(DefaultRetryAfter)
    ELSE Raised("Rate limit exceeded")

\* lines 64-72
on_429(response, attempt, max_retries) ==
    LET retry_after == int(RetryAfterHeader(response))
    IN  IF ~retry_after.ok THEN Raised("ValueError")
        ELSE IF attempt < max_retries THEN Retry(retry_after.value)
        ELSE Raised("Rate limit exceeded")

\* a 503 that is retried whatever the attempt
on_503_always(attempt, max_retries) == Retry(Min(Pow2(attempt), ServiceBackoffCap))

\* a 503 backoff without the cap
on_503_uncapped(attempt, max_retries) ==
    IF attempt < max_retries
    THEN Retry(Pow2(attempt))
    ELSE Raised("Microsoft Graph service temporarily unavailable")

\* lines 73-81
on_503(attempt, max_retries) ==
    IF attempt < max_retries
    THEN Retry(Min(Pow2(attempt), ServiceBackoffCap))
    ELSE Raised("Microsoft Graph service temporarily unavailable")

\* a network failure that is not retried
on_RequestException_once(attempt, max_retries) == Raised("Network error")

\* lines 88-97
on_RequestException(attempt, max_retries) ==
    IF attempt < max_retries
    THEN Retry(Min(Pow2(attempt), NetworkBackoffCap))
    ELSE Raised("Network error")

\* line 86, response.json(): the body, or a decode error.  The error class of
\* the installed requests decides which except clause takes it: one that is
\* also a RequestException (lines 88-97) or a plain json.JSONDecodeError
\* (lines 98-100)
on_ok(response, attempt, max_retries) ==
    IF response.json THEN {Returned}
    ELSE {on_RequestException(attempt, max_retries),
          Raised("Invalid response from Graph API")}

\* lines 56-100: what one attempt does with the outcome of session.request
Dispositions(response, attempt, max_retries) ==
    IF response.raised THEN {on_RequestException(attempt, max_retries)}
    ELSE CASE response.status = 401 -> {on_401(attempt, max_retries)}
           [] response.status = 403 -> {Raised("Access forbidden - insufficient permissions")}
           [] response.status = 429 -> {on_429(response, attempt, max_retries)}
           [] response.status = 503 -> {on_503(attempt, max_retries)}
           [] response.status \notin {401, 403, 429, 503} /\ response.status >= 400 ->
                {Failed(response)}
           [] OTHER -> on_ok(response, attempt, max_retries)

\* lines 88 and 89: the except clause for RequestException took the outcome
Caught(response, d) ==
    \/ response.raised
    \/ /\ response.status < 400 /\ ~response.json
       /\ d.error # "Invalid response from Graph API"

\* a loop that is never left by running out of attempts
InRangeAlways(attempt, max_retries) == TRUE

\* line 55, `for attempt in range(max_retries + 1)`: the loop goes on
InRange(attempt, max_retries) == attempt < max_retries + 1

\* lines 102-104, after the loop: an error if an exception was kept, else the
\* function ends without a return statement
AfterLoop(last_exception) ==
    IF last_exception THEN [outcome |-> "raised", error |-> "Request failed after retries"]
    ELSE [outcome |-> "returned_none", error |-> ""]

\* a _get_headers that goes on without a token
AnyToken(access_token) == TRUE

\* _get_headers, line 28: `if not access_token`
HaveToken(access_token) == access_token # 0

\* _make_request is entered: `attempt` is the loop variable, `calls` counts
\* session.request calls, `sleeps` the time.sleep calls; `event` is what the
\* latest attempt met, `response` and `wait` its response and the sleep after
\* it, `error` and `quoted` the message of the exception raised, `silent` the
\* acquire_token_silent calls made for it.  A caller that names no max_retries
\* (search_emails, line 215) gets the default.  `call` numbers the calls made
\* one after the other, `last_exception` is the local of line 53
Enter(call, inputs) ==
    /\ getter.pc = "idle"
    /\ \E max_retries \in inputs :
         api' = [op |-> "request", pc |-> "headers", max_retries |-> max_retries,
                 call |-> call,
                 last_exception |-> FALSE,
                 attempt |-> 0, calls |-> 0, sleeps |-> 0, silent |-> 0, event |-> "none",
                 token |-> 0, response |-> NoResponse, wait |-> 0,
                 outcome |-> "running", error |-> "", quoted |-> [status |-> 0, text |-> ""]]
    /\ UNCHANGED <<error_handler, user_tokens, http, search, tm, now, store, port, callback_server, sdk, pc, flow, start_time,
                   auth_response, result, after, login_button, logout_button, getter,
                   minted, nlogins, hist>>

\* the first _make_request call of a GraphClient
make_request ==
    /\ api = NoCall
    /\ Enter(1, IF search = NoCall THEN MaxRetriesInputs ELSE {DefaultMaxRetries})

\* a later call on the same GraphClient, after the one before has ended
\* (get_user_info, line 115, get_mail_folders, line 144, ... one after the
\* other, none of which names a max_retries)
make_request_again ==
    /\ api # NoCall /\ search = NoCall
    /\ api.pc = "done" /\ api.call < MaxCalls
    /\ Enter(api.call + 1, {DefaultMaxRetries})

\* _get_headers, line 27: get_access_token() is called
request_get_headers ==
    /\ api.op = "request" /\ api.pc = "headers"
    /\ get_access_token(1)

\* lines 27-35 and 58-100: get_access_token() has returned; without a token
\* _get_headers raises, with one the request is sent and its outcome handled
request_send ==
    /\ api.op = "request" /\ api.pc = "headers"
    /\ getter.pc = "done"
    /\ getter' = IdleGetter
    /\ IF ~HaveToken(getter.value)
       THEN /\ api' = [api EXCEPT !.pc = "done", !.event = "no_token",
                                  !.silent = IF getter.tried THEN @ + 1 ELSE @,
                                  !.token = getter.value, !.outcome = "raised",
                                  !.error = "No valid access token available"]
            /\ UNCHANGED now
       ELSE \E response \in session_request :
            \E d \in Dispositions(response, api.attempt, api.max_retries) :
            LET kept == api.last_exception \/ Caught(response, d)
                loops == d.do = "retry" /\ InRange(api.attempt + 1, api.max_retries)
            IN
              /\ api' = [api EXCEPT
                           !.pc = IF loops THEN "headers" ELSE "done",
                           !.last_exception = kept,
                           !.event = "response",
                           !.token = getter.value,
                           !.response = response,
                           !.calls = @ + 1,
                           !.silent = IF getter.tried THEN @ + 1 ELSE @,
                           !.sleeps = IF d.do = "retry" THEN @ + 1 ELSE @,
                           !.wait = d.wait,
                           !.attempt = IF d.do = "retry" THEN @ + 1 ELSE @,
                           !.outcome = CASE loops -> "running"
                                         [] d.do = "retry" -> AfterLoop(kept).outcome
                                         [] d.do = "return" -> "returned"
                                         [] OTHER -> "raised",
                           !.error = IF d.do = "retry" /\ ~loops
                                     THEN AfterLoop(kept).error ELSE d.error,
                           !.quoted = [status |-> d.status, text |-> d.text]]
              /\ now' = now + d.wait
    /\ UNCHANGED <<error_handler, user_tokens, http, search, tm, store, port, callback_server, sdk, pc, flow, start_time,
                   auth_response, result, after, login_button, logout_button,
                   minted, nlogins, hist>>

\* one _make_request call of a worker thread of copy 1, while the user may
\* log out
NextRequest ==
    \/ make_request
    \/ request_get_headers
    \/ get_silent
    \/ get_stored
    \/ request_send
    \/ handle_logout(1)
    \/ Tick

SpecRequest == Init /\ [][NextRequest]_vars

\* several _make_request calls one after the other
NextCalls ==
    \/ make_request
    \/ make_request_again
    \/ request_get_headers
    \/ get_silent
    \/ get_stored
    \/ request_send

\* the application started with a valid record in the keychain
InitCalls == Init /\ store # NoRec /\ is_token_valid(store, now)

SpecCalls == InitCalls /\ [][NextCalls]_vars

\* ------------------------------------- GraphClient.search_emails and the GUI

MaxMessages == 2       \* messages in one page of results of the provider

\* max_results as the search form gives it
MaxResultsInputs == {1, 2}

\* a message of the provider's response: with a subject, with "subject": null,
\* without the key
Messages == {[id |-> "m", subject |-> "Hello"], [id |-> "m", subject |-> None],
             [id |-> "m"]}

\* response.get('value', []) of a decoded body
Values == UNION {[1..n -> Messages] : n \in 0..MaxMessages}

\* search_emails, lines 220-230: one entry of the result
email_info(message) ==
    [id |-> Get(message, "id", ""), subject |-> Get(message, "subject", "(No Subject)")]

\* lines 218-233: the loop over the messages
emails_of(value) == [k \in 1..Len(value) |-> email_info(value[k])]

\* `"401" in str(e)`: the message of the exception contains these digits.  The
\* fixed texts of _make_request contain none; the one for other statuses
\* quotes the status code (the bodies here contain no digits)
Mentions(request, digits) == request.quoted.status = digits

\* search_emails, lines 235-245: every failure is raised again as an Exception
\* whose message is chosen by what the first message contains
search_emails_error(request) ==
    [type |-> "Exception",
     message |-> CASE Mentions(request, 401) -> "Authentication expired. Please login again."
                   [] Mentions(request, 403) -> "Access denied. Check your permissions."
                   [] Mentions(request, 429) -> "Too many requests. Please wait and try again."
                   [] OTHER -> "Email search failed"]

NoError == [type |-> "", message |-> ""]

\* gui_app.py handle_search, lines 343-376: the search button is enabled
\* together with the logout button (lines 270, 279, 307, 326) and disabled
\* while a search runs; the thread enters search_emails
handle_search ==
    /\ search = NoCall
    /\ api = NoCall
    /\ logout_button[1]
    /\ \E max_results \in MaxResultsInputs :
         search' = [op |-> "search", pc |-> "request", max_results |-> max_results,
                    ok |-> FALSE, emails |-> <<>>, error |-> NoError, silent |-> 0]
    /\ UNCHANGED <<error_handler, user_tokens, http, tm, api, now, store, port, callback_server, sdk, pc, flow, start_time,
                   auth_response, result, after, login_button, logout_button, getter,
                   minted, nlogins, hist>>

\* search_emails, line 215: the request is made
search_request ==
    /\ search # NoCall /\ search.pc = "request"
    /\ make_request

\* search_emails, lines 217-245, and search_thread, lines 365-372: the body of
\* a response that decoded is turned into the result and displayed; a failure
\* is raised again and shown in the error box.  `silent` is the number of
\* acquire_token_silent calls the thread has made by then
search_emails_return ==
    /\ search # NoCall /\ search.pc = "request"
    /\ api # NoCall /\ api.pc = "done"
    /\ IF api.outcome = "returned"
       THEN \E value \in Values :
              search' = [search EXCEPT !.pc = "shown", !.ok = TRUE,
                                       !.emails = emails_of(value),
                                       !.silent = api.silent]
       ELSE search' = [search EXCEPT !.pc = "shown",
                                     !.error = search_emails_error(api),
                                     !.silent = api.silent]
    /\ UNCHANGED <<error_handler, user_tokens, http, tm, api, now, store, port, callback_server, sdk, pc, flow, start_time,
                   auth_response, result, after, login_button, logout_button, getter,
                   minted, nlogins, hist>>

\* copy 1 after a login in this run (the SDK knows the account) or after a
\* restart (it does not), with the record the keychain holds
InitSearch ==
    /\ now = 0
    /\ store \in InitialStores
    /\ port = 0
    /\ callback_server = [i \in Inst |-> NoServer]
    /\ \E account \in BOOLEAN :
         sdk = [i \in Inst |->
                  IF i = 1 /\ account /\ store # NoRec
                  THEN Cached(store.access_token, store.expires_in, store.stored_at)
                  ELSE NoAccount]
    /\ pc = [i \in Inst |-> "idle"]
    /\ flow = [i \in Inst |-> NoState]
    /\ start_time = [i \in Inst |-> 0]
    /\ auth_response = [i \in Inst |-> NoResult]
    /\ result = [i \in Inst |-> NoResult]
    /\ after = [i \in Inst |-> "return_false"]
    /\ \E seen \in [Inst -> get_tokens(store)] :
         /\ login_button = [i \in Inst |-> ~is_authenticated(seen[i], now)]
         /\ logout_button = [i \in Inst |-> is_authenticated(seen[i], now)]
    /\ getter = IdleGetter
    /\ minted = IF store = NoRec THEN 0 ELSE 1
    /\ nlogins = 0
    /\ hist = [i \in Inst |-> NewHist]
    /\ tm = NoCall
    /\ api = NoCall
    /\ search = NoCall
    /\ http = NoCall
    /\ user_tokens = EmptyTable
    /\ error_handler = NewErrorHandler

\* one search of copy 1, while the user may log out
NextSearch ==
    \/ handle_search
    \/ search_request
    \/ request_get_headers
    \/ get_silent
    \/ get_stored
    \/ request_send
    \/ search_emails_return
    \/ handle_logout(1)
    \/ Tick

SpecSearch == InitSearch /\ [][NextSearch]_vars

\* ------------------------------------- the AuthCallbackHandler on its own

MaxParams == 2         \* query parameters in one callback request

\* name=value pairs of a query string
Params ==
    {<<"code", "">>, <<"code", "c1">>, <<"code", "c2">>,
     <<"error", "">>, <<"error", "access_denied">>,
     <<"error_description", "denied">>,
     <<"state", "">>, <<"state", "s">>}

\* the query of self.path, in the order written
Queries == UNION {[1..n -> Params] : n \in 0..MaxParams}

\* the values given for key k, blank ones left out, in order
ValuesOf(query, k) ==
    LET F[n \in 0..Len(query)] ==
          IF n = 0 THEN <<>>
          ELSE IF query[n][1] = k /\ query[n][2] # ""
               THEN Append(F[n - 1], query[n][2])
               ELSE F[n - 1]
    IN  F[Len(query)]

\* an order of the branches that looks for an error first
ErrorBeforeCode(query_components) ==
    CASE "error" \in DOMAIN query_components -> "error"
      [] "code" \in DOMAIN query_components -> "code"
      [] OTHER -> "invalid"

\* do_GET, lines 32, 72, 103: the branch taken
BranchOf(query_components) ==
    CASE "code" \in DOMAIN query_components -> "code"
      [] "error" \in DOMAIN query_components -> "error"
      [] OTHER -> "invalid"

\* urllib.parse.parse_qs(parsed_url.query), line 28: each key that has a
\* non-blank value, with the list of its non-blank values
parse_qs(query) ==
    [k \in {query[n][1] : n \in {m \in 1..Len(query) : query[m][2] # ""}}
       |-> ValuesOf(query, k)]

\* lines 36-39: the first value of every key
FirstValues(query_components) ==
    [k \in DOMAIN query_components |-> query_components[k][1]]

\* auth_error as error and description; line 75 formats them as
\* f"{error}: {error_description}"
AuthError(error, description) == [error |-> error, description |-> description]

NoAuthError == AuthError("", "")

\* where the handler meets an exception: nowhere; before it reads the query;
\* while it writes the response (the browser has closed the connection)
Faults == {"none", "parse", "write"}

\* do_GET, lines 22-153, on the attributes lines 387-391 give a new server:
\* what it leaves in self.server, and the status lines it puts into the
\* response, in order.  An exception anywhere in the try runs lines 133-153,
\* which set auth_error and send a 500 whatever was sent before
do_GET_writes(query, fault) ==
    LET query_components == parse_qs(query)
        branch == BranchOf(query_components)
        written ==
          CASE fault = "parse" ->
                 [auth_code |-> NoCode, auth_response |-> <<>>, auth_error |-> NoAuthError]
            [] branch = "code" ->
                 [auth_code |-> query_components["code"][1],
                  auth_response |-> FirstValues(query_components),
                  auth_error |-> NoAuthError]
            [] branch = "error" ->
                 [auth_code |-> NoCode, auth_response |-> <<>>,
                  auth_error |->
                     AuthError(query_components["error"][1],
                               Get(query_components, "error_description", <<"">>)[1])]
            [] OTHER ->
                 [auth_code |-> NoCode, auth_response |-> <<>>,
                  auth_error |->
                     AuthError("Invalid callback - no authorization code received", "")]
        status == IF branch = "code" THEN 200 ELSE 400
    IN  [auth_code |-> written.auth_code,
         auth_response |-> written.auth_response,
         auth_error |-> IF fault = "none" THEN written.auth_error
                        ELSE AuthError("Callback handler error", ""),
         callback_received |-> TRUE,
         statuses |-> CASE fault = "none" -> <<status>>
                        [] fault = "parse" -> <<500>>
                        [] OTHER -> <<status, 500>>]

\* one request is handled
handler_do_GET ==
    /\ \E query \in Queries, fault \in Faults :
         http' = [op |-> "do_GET", query |-> query, fault |-> fault,
                  server |-> do_GET_writes(query, fault)]
    /\ UNCHANGED <<error_handler, user_tokens, search, tm, api, now, store, port, callback_server, sdk, pc, flow,
                   start_time, auth_response, result, after, login_button,
                   logout_button, getter, minted, nlogins, hist>>

\* a listener that has just been started; the keychain plays no part
InitCallback == Init /\ store = NoRec

NextCallback == handler_do_GET

SpecCallback == InitCallback /\ [][NextCallback]_vars

\* --------------------------------------- the callback listener on its own
\* _start_callback_server and _stop_callback_server called in any order on the
\* AuthManager of either copy, with requests reaching a running listener;
\* `http` keeps the last _stop_callback_server call, with the holder of the
\* port before and after it, until that copy starts a listener again

\* _start_callback_server, lines 375-407, called directly
server_start(i) ==
    /\ \E bound \in CanBind(port) :
         IF bound
         THEN /\ port' = i
              /\ callback_server' = [callback_server EXCEPT ![i] = NewServer]
         ELSE UNCHANGED <<port, callback_server>>
    /\ http' = IF http # NoCall /\ http.inst = i THEN NoCall ELSE http
    /\ UNCHANGED <<error_handler, user_tokens, search, tm, api, now, store, sdk, pc, flow, start_time, auth_response,
                   result, after, login_button, logout_button, getter, minted, nlogins,
                   hist>>

\* _stop_callback_server, lines 409-418, called directly; `streak` counts the
\* calls made on copy i one after the other with no start in between
server_stop(i) ==
    /\ LET o == StopServer(callback_server[i], port, i)
           streak == IF http # NoCall /\ http.inst = i THEN http.streak + 1 ELSE 1
       IN  /\ streak <= MaxStops
           /\ port' = o.port
           /\ callback_server' = [callback_server EXCEPT ![i] = o.server]
           /\ http' = [op |-> "stop", inst |-> i, server |-> callback_server[i],
                       port |-> port, port_after |-> o.port, raised |-> o.raised,
                       streak |-> streak]
    /\ UNCHANGED <<error_handler, user_tokens, search, tm, api, now, store, sdk, pc, flow, start_time, auth_response,
                   result, after, login_button, logout_button, getter, minted, nlogins,
                   hist>>

NextStop == \E i \in Inst : server_start(i) \/ server_stop(i) \/ do_GET(i)

SpecStop == InitCallback /\ [][NextStop]_vars

\* ------------------------------------------------- multi_user_api_server.py
\* the Flask endpoints /api/auth/register and /api/email/search; DB_LOCK makes
\* each database call one step; `http` keeps the last request and its response

UserIds == {"u1", "u2"}
UserEmails == {"a@example.com", "b@example.com"}

\* the JSON bodies of POST /api/auth/register: any field may be missing (None)
RegisterBodies ==
    [user_id : UserIds \cup {None}, user_email : UserEmails,
     access_token : {None, "t1", "t2"}, refresh_token : {None},
     expires_in : ExpiresIns]

\* the user_context.user_id of POST /api/email/search: missing, the literal
\* n8n leaves for an unset expression, or a user id
SearchUserIds == UserIds \cup {None, "[undefined]"}

\* store_user_token, lines 58-77: INSERT OR REPLACE on the primary key user_id
\* replaces the whole row, created_at included
store_user_token(table, user_id, user_email, token_data, t) ==
    {row \in table : row.user_id # user_id}
    \cup {[user_id |-> user_id, user_email |-> user_email,
            access_token |-> token_data.access_token,
            refresh_token |-> token_data.refresh_token,
            expires_at |-> t + token_data.expires_in,
            created_at |-> t, updated_at |-> t]}

\* lines 84-87: SELECT ... FROM user_tokens WHERE user_id = ?
RowsOf(table, user_id) == {row \in table : row.user_id = user_id}

\* get_user_token, lines 79-101: the row of user_id with is_valid computed at
\* t, or None
get_user_token(table, user_id, t) ==
    LET rows == RowsOf(table, user_id)
    IN  IF rows = {} THEN NoRec
        ELSE LET row == CHOOSE r \in rows : TRUE
             IN  [access_token |-> row.access_token,
                  refresh_token |-> row.refresh_token,
                  expires_at |-> row.expires_at,
                  user_email |-> row.user_email,
                  is_valid |-> row.expires_at > t]

\* register_user_token, lines 111-154
register_user_token ==
    /\ \E data \in RegisterBodies :
         LET ok == None \notin {data.user_id, data.user_email, data.access_token}
         IN  /\ user_tokens' =
                  IF ok
                  THEN store_user_token(user_tokens, data.user_id, data.user_email,
                                        [access_token |-> data.access_token,
                                         refresh_token |-> data.refresh_token,
                                         expires_in |-> data.expires_in], now)
                  ELSE user_tokens
             /\ http' = [op |-> "register", user_id |-> data.user_id,
                         status |-> IF ok THEN 200 ELSE 400,
                         user_email |-> data.user_email, at |-> now,
                         token_info |-> NoRec]
    /\ UNCHANGED <<error_handler, search, tm, api, now, store, port, callback_server, sdk,
                   pc, flow, start_time, auth_response, result, after, login_button,
                   logout_button, getter, minted, nlogins, hist>>

\* search_user_emails, lines 156-240: `token_info` is what get_user_token
\* returned, `user_email` the address put into the response.  A body whose
\* user_context is null makes line 167 raise, which ends in the 500 of lines
\* 232-240
search_user_emails ==
    /\ \E user_id \in SearchUserIds, user_context \in {"object", "null"} :
         LET token_info == get_user_token(user_tokens, user_id, now)
             status == CASE user_context = "null" -> 500
                         [] user_id \in {None, "[undefined]"} -> 400
                         [] token_info = NoRec -> 401
                         [] ~token_info.is_valid -> 401
                         [] OTHER -> 200
         IN  http' = [op |-> "search", user_id |-> user_id, status |-> status,
                      user_email |-> IF status = 200 THEN token_info.user_email ELSE None,
                      at |-> now,
                      token_info |-> IF status \in {400, 500} THEN NoRec ELSE token_info]
    /\ UNCHANGED <<error_handler, user_tokens, search, tm, api, now, store, port,
                   callback_server, sdk, pc, flow, start_time, auth_response, result,
                   after, login_button, logout_button, getter, minted, nlogins, hist>>

NextRegistry == register_user_token \/ search_user_emails \/ Tick

SpecRegistry == InitCallback /\ [][NextRegistry]_vars

\* ------------------------------------------- error_handler.py retry_on_error
\* one call of a function wrapped by retry_on_error(max_retries, delay, backoff,
\* exceptions); `api` keeps the call: what every call of the wrapped function
\* ended in, and the sleeps made

\* what one call of the wrapped function ends in: a value, or an exception
FuncOutcomes == {"value", "NetworkError", "RateLimitError", "ValueError"}

\* the `exceptions` argument: the default of line 171, or a single class
ExceptionLists == {{"NetworkError", "RateLimitError"}, {"NetworkError"}}

\* a listed exception after which the delay stays as it is
on_listed_fixed_delay(attempt, max_retries, current_delay, backoff) ==
    IF attempt < max_retries
    THEN [do |-> "sleep", wait |-> current_delay, current_delay |-> current_delay]
    ELSE [do |-> "break", wait |-> 0, current_delay |-> current_delay]

\* lines 191-200, the branch for a listed exception: sleep and multiply the
\* delay, or leave the loop on the last attempt
on_listed(attempt, max_retries, current_delay, backoff) ==
    IF attempt < max_retries
    THEN [do |-> "sleep", wait |-> current_delay, current_delay |-> current_delay * backoff]
    ELSE [do |-> "break", wait |-> 0, current_delay |-> current_delay]

\* the wrapper is entered, lines 183-185
retry_on_error ==
    /\ api = NoCall
    /\ \E max_retries \in 0..MaxDecoratorRetries, delay \in {1, 3}, backoff \in {2, 3},
          exceptions \in ExceptionLists :
         api' = [op |-> "retry_on_error", pc |-> "loop", max_retries |-> max_retries,
                 delay |-> delay, backoff |-> backoff, exceptions |-> exceptions,
                 attempt |-> 0, current_delay |-> delay, last_exception |-> None,
                 calls |-> <<>>, sleeps |-> <<>>, outcome |-> "running", error |-> None]
    /\ UNCHANGED <<error_handler, user_tokens, http, search, tm, now, store, port,
                   callback_server, sdk, pc, flow, start_time, auth_response, result,
                   after, login_button, logout_button, getter, minted, nlogins, hist>>

\* lines 187-209: one turn of the loop, the call of the wrapped function and
\* what follows it
wrapper_attempt ==
    /\ api # NoCall /\ api.op = "retry_on_error" /\ api.pc = "loop"
    /\ \E o \in FuncOutcomes :
         LET called == [api EXCEPT !.calls = Append(@, o)]
             d == on_listed(api.attempt, api.max_retries, api.current_delay, api.backoff)
         IN  CASE o = "value" ->
                    /\ api' = [called EXCEPT !.pc = "done", !.outcome = "returned"]
                    /\ UNCHANGED now
               [] o \in api.exceptions /\ d.do = "sleep" ->
                    /\ api' = [called EXCEPT !.last_exception = o,
                                             !.sleeps = Append(@, d.wait),
                                             !.current_delay = d.current_delay,
                                             !.attempt = @ + 1,
                                             !.pc = IF api.attempt + 1 < api.max_retries + 1
                                                    THEN "loop" ELSE "done",
                                             !.outcome = IF api.attempt + 1 < api.max_retries + 1
                                                         THEN "running" ELSE "raised",
                                             !.error = IF api.attempt + 1 < api.max_retries + 1
                                                       THEN None ELSE o]
                    /\ now' = now + d.wait
               [] o \in api.exceptions /\ d.do = "break" ->
                    /\ api' = [called EXCEPT !.last_exception = o, !.pc = "done",
                                             !.outcome = "raised", !.error = o]
                    /\ UNCHANGED now
               [] OTHER ->
                    /\ api' = [called EXCEPT !.pc = "done", !.outcome = "raised",
                                             !.error = o]
                    /\ UNCHANGED now
    /\ UNCHANGED <<error_handler, user_tokens, http, search, tm, store, port,
                   callback_server, sdk, pc, flow, start_time, auth_response, result,
                   after, login_button, logout_button, getter, minted, nlogins, hist>>

NextRetry == retry_on_error \/ wrapper_attempt

SpecRetry == InitCallback /\ [][NextRetry]_vars

\* ------------------------------------------- error_handler.py safe_api_call
\* safe_api_call(func, error_handler) and set_offline_mode called on one
\* ErrorHandler while time passes; `api` keeps the last call

\* the connectivity probe of lines 130-147: a status, or a RequestException (0)
ProbeOutcomes == {200, 503, 0}

\* what func() ends in: a value, a requests exception, a known error, any other
ApiOutcomes ==
    {"value", "ConnectionError", "ConnectTimeout", "ReadTimeout", "RequestException",
     "AuthenticationError", "RateLimitError", "KeyError"}

\* a check that inside the interval answers as the last probe did, whatever
\* has happened to offline_mode since
check_reusing_probe(handler, t, probe) ==
    IF t - handler.last_network_check < NetworkCheckInterval
    THEN [handler |-> handler, online |-> TRUE, probed |-> FALSE]
    ELSE [handler |-> [offline_mode |-> probe # 200, last_network_check |-> t],
          online |-> probe = 200, probed |-> TRUE]

\* check_network_connectivity, lines 113-147, at current_time = t when a probe
\* would end in `probe`
check_network_connectivity(handler, t, probe) ==
    IF t - handler.last_network_check < NetworkCheckInterval
    THEN [handler |-> handler, online |-> ~handler.offline_mode, probed |-> FALSE]
    ELSE [handler |-> [offline_mode |-> probe # 200, last_network_check |-> t],
          online |-> probe = 200, probed |-> TRUE]

\* handle_network_error, lines 88-111: ConnectTimeout is tested before
\* ConnectionError; every branch raises NetworkError
handle_network_error(handler, error) ==
    IF error = "ConnectionError" THEN [handler EXCEPT !.offline_mode = TRUE] ELSE handler

\* safe_api_call, lines 214-247: the check of line 230, func() at line 234,
\* the except clauses of lines 236-245
safe_api_call ==
    /\ \E probe \in ProbeOutcomes, o \in ApiOutcomes :
         LET c == check_network_connectivity(error_handler, now, probe)
             requests_error == o \in {"ConnectionError", "ConnectTimeout", "ReadTimeout",
                                      "RequestException"}
         IN  /\ error_handler' =
                  IF c.online /\ requests_error THEN handle_network_error(c.handler, o)
                  ELSE c.handler
             /\ api' = [op |-> "safe_api_call", at |-> now,
                        handler |-> error_handler,
                        probed |-> c.probed, probe |-> IF c.probed THEN probe ELSE 0,
                        invoked |-> c.online,
                        offline_mode |-> c.handler.offline_mode,
                        func |-> IF c.online THEN o ELSE None,
                        outcome |-> CASE ~c.online -> "OfflineError"
                                      [] o = "value" -> "returned"
                                      [] requests_error -> "NetworkError"
                                      [] o \in {"AuthenticationError", "RateLimitError"} -> o
                                      [] OTHER -> "YachtEmailError"]
    /\ UNCHANGED <<user_tokens, http, search, tm, now, store, port,
                   callback_server, sdk, pc, flow, start_time, auth_response, result,
                   after, login_button, logout_button, getter, minted, nlogins, hist>>

\* set_offline_mode, lines 158-166
set_offline_mode ==
    /\ \E offline \in BOOLEAN :
         /\ error_handler' = [error_handler EXCEPT !.offline_mode = offline]
         /\ api' = [op |-> "set_offline_mode", at |-> now, handler |-> error_handler,
                    offline |-> offline]
    /\ UNCHANGED <<user_tokens, http, search, tm, now, store, port,
                   callback_server, sdk, pc, flow, start_time, auth_response, result,
                   after, login_button, logout_button, getter, minted, nlogins, hist>>

\* time passes, an interval or a second less at a time
TickShort ==
    /\ \E d \in {NetworkCheckInterval - 1, NetworkCheckInterval} : now + d <= MaxShortNow /\ now' = now + d
    /\ UNCHANGED <<error_handler, user_tokens, http, search, tm, api, store, port,
                   callback_server, sdk, pc, flow, start_time, auth_response, result,
                   after, login_button, logout_button, getter, minted, nlogins, hist>>

NextOffline == safe_api_call \/ set_offline_mode \/ TickShort

SpecOffline == InitCallback /\ [][NextOffline]_vars

\* -------------------------------------------------------------- properties

C2_FirstCallbackWins ==
    [][\A i \in Inst :
          (/\ callback_server[i] # NoServer
           /\ callback_server[i].auth_code # NoCode
           /\ callback_server[i].auth_error = "none"
           /\ callback_server'[i] # NoServer)
          => callback_server'[i] = callback_server[i]]_vars

\* C3: when the state of the callback that login() processes differs from the
\* state nonce of its flow, nothing is sent to the token endpoint, nothing is
\* written to the token store and login() does not report success
C3_StateMismatchFails ==
    \A i \in Inst :
        (auth_response[i] # NoResult /\ auth_response[i].st # flow[i])
        => /\ ~hist[i].exchanged
           /\ ~hist[i].stored
           /\ pc[i] # "store"
           /\ hist[i].outcome # "true"
           /\ result[i] = NoResult

\* login() has returned after a callback whose state was not the flow's
C3_Witness ==
    \E i \in Inst :
        /\ pc[i] = "done"
        /\ auth_response[i] # NoResult
        /\ auth_response[i].st # flow[i]
        /\ hist[i].outcome = "false"

\* C4: a login() that reports success without the early return has started
\* the listener, opened the browser, received a token result from the code
\* exchange and written it to the token store; a timeout, an exchange without
\* access_token and a failed store each end in failure
C4_SuccessNeedsExchangeAndStore ==
    \A i \in Inst :
        /\ (hist[i].outcome = "true" /\ ~hist[i].early)
           => /\ hist[i].started /\ hist[i].opened
              /\ hist[i].exchanged /\ result[i] # NoResult
              /\ hist[i].stored
              /\ ~hist[i].timed_out
        /\ (pc[i] = "done" /\ hist[i].exchanged /\ (result[i] = NoResult \/ ~hist[i].stored))
           => hist[i].outcome = "false"

\* a full flow has reported success
C4_Witness ==
    \E i \in Inst :
        pc[i] = "done" /\ hist[i].outcome = "true" /\ ~hist[i].early /\ hist[i].stored

\* C5: a login() that finds a valid token in the token store returns success
\* at once and starts no callback listener
C5_ValidTokenSkipsListener ==
    \A i \in Inst : hist[i].had_valid => ~hist[i].started

\* C6: at most one login flow holds a callback listener; the listener that
\* exists is the one bound to the port; within a copy no second login() can be
\* invoked while one runs (the button that invokes it is disabled); the login()
\* invoked in the other copy while one waits fails without a listener
C6_OneFlowAwaiting ==
    /\ Cardinality({i \in Inst : callback_server[i] # NoServer}) <= 1
    /\ \A i \in Inst : (callback_server[i] # NoServer) <=> (port = i)
    /\ \A i \in Inst : login_button[i] => pc[i] \in {"idle", "done"}
    /\ \A i \in Inst : pc[i] \in {"flow", "wait", "check", "exchange"} => port = i

\* copy 1 is waiting for its callback, copy 2's login() was invoked after copy
\* 1's flow began and has been rejected without a listener
C6_Witness ==
    /\ pc[1] = "wait" /\ flow[1] = 1 /\ nlogins = 2
    /\ callback_server[1] # NoServer
    /\ pc[2] = "done" /\ ~hist[2].started /\ hist[2].outcome = "false"

\* C7: once _wait_for_callback has timed out, login() stops the listener and
\* returns False; whatever the listener receives before it is stopped, no code
\* is exchanged and nothing is written to the token store
C7_TimeoutNeverExchanges ==
    \A i \in Inst :
        hist[i].timed_out
        => /\ pc[i] \in {"stop", "done"}
           /\ ~hist[i].exchanged /\ ~hist[i].stored /\ result[i] = NoResult
           /\ hist[i].outcome # "true"
           /\ pc[i] = "done" => hist[i].outcome = "false" /\ callback_server[i] = NoServer

\* the wait has timed out and, before the listener is stopped, it has handled
\* a callback with a code and the flow's state
C7_Witness ==
    \E i \in Inst :
        /\ hist[i].timed_out /\ pc[i] = "stop"
        /\ callback_server[i] # NoServer
        /\ callback_server[i].auth_code # NoCode
        /\ callback_server[i].auth_error = "none"
        /\ callback_server[i].auth_response.st = flow[i]

\* C8: a token that get_access_token() returns comes from a silent acquisition
\* that succeeded, or is the access token of the stored record, which
\* satisfies is_token_valid at the moment of return; with nothing stored, and
\* whenever the call ends otherwise (an exception included), it returns None
C8_ReturnedTokenValid ==
    getter.pc = "done"
    => /\ getter.via \in {"silent", "stored", "none"}
       /\ getter.via = "silent" => getter.tried /\ getter.value # 0
       /\ getter.via = "stored"
          => /\ is_token_valid(getter.stored, getter.at)
             /\ getter.value = getter.stored.access_token
       /\ getter.via = "none" => getter.value = 0
       /\ getter.stored = NoRec => getter.value = 0

\* get_access_token() has returned the stored token after the clock advanced
\* during the call
C8_Witness ==
    /\ getter.pc = "done" /\ getter.via = "stored" /\ getter.value # 0
    /\ getter.at > getter.stored.stored_at

\* C9: when the stored token is stale and the SDK knows the account,
\* get_access_token() attempts a silent acquisition before it answers
C9_StaleTriggersRefresh ==
    (getter.pc = "done" /\ getter.stale /\ getter.account) => getter.tried

C11_LogoutClearsUntilLogin ==
    [][(store = NoRec /\ store' # NoRec)
       => \E i \in Inst : pc[i] = "store" /\ pc'[i] = "done"]_vars

\* C12: is_token_valid(r) is true exactly when r has expires_at and the clock
\* is before expires_at - 300; at expires_at - 300 it is false
C12_ValidExactlyBeforeBuffer ==
    tm.op = "is_token_valid"
    => (tm.result <=> /\ "expires_at" \in DOMAIN tm.arg
                      /\ tm.at < 2 * (tm.arg.expires_at - 300))

\* the test at half a second past expires_at - 301: valid
C12_Witness ==
    /\ tm.op = "is_token_valid"
    /\ "expires_at" \in DOMAIN tm.arg
    /\ tm.at = 2 * (tm.arg.expires_at - 301) + 1
    /\ tm.result

\* C13: get_tokens() after store_tokens(r), nothing stored or cleared in
\* between and the keychain readable, returns a record with r's access
\* token, refresh token, scope and token type
C13_StoreThenLoad ==
    (tm.op = "get_tokens" /\ tm.written # NothingWritten /\ ~tm.fault)
    => /\ tm.result # NoRec
       /\ tm.result.access_token = tm.written.access_token
       /\ tm.result.refresh_token = Get(tm.written, "refresh_token", None)
       /\ tm.result.scope = Get(tm.written, "scope", None)
       /\ "token_type" \in DOMAIN tm.written
          => tm.result.token_type = tm.written.token_type

\* get_tokens() directly after a store_tokens(r) of a response with refresh
\* token and scope
C13_Witness ==
    /\ tm.op = "get_tokens" /\ tm.prev = "store_tokens" /\ ~tm.fault
    /\ tm.written # NothingWritten
    /\ "scope" \in DOMAIN tm.written
    /\ tm.result # NoRec
    /\ tm.result.scope = tm.written.scope

\* C14: clear_tokens() with a working keychain reports success and leaves no
\* token entry, also when there was none before
C14_ClearIdempotent ==
    (tm.op = "clear_tokens" /\ ~tm.fault) => tm.result = TRUE /\ store = NoRec

\* a second clear_tokens() in a row, on the empty store
C14_Witness ==
    /\ tm.op = "clear_tokens" /\ tm.prev = "clear_tokens" /\ ~tm.fault
    /\ tm.arg = NoRec
    /\ tm.result = TRUE

\* C15: after store_tokens(r1); store_tokens(r2), get_tokens() returns the
\* record store_tokens makes of r2 alone
C15_LastWriterWins ==
    (/\ tm.op = "get_tokens" /\ ~tm.fault
     /\ tm.before # NothingWritten /\ tm.written # NothingWritten)
    => tm.result = TokenData(tm.written, tm.written_at)

\* r1 had a refresh token, r2 has none, and the loaded record has none
C15_Witness ==
    /\ tm.op = "get_tokens" /\ ~tm.fault
    /\ tm.before # NothingWritten /\ tm.written # NothingWritten
    /\ "refresh_token" \in DOMAIN tm.before
    /\ "refresh_token" \notin DOMAIN tm.written
    /\ tm.result # NoRec
    /\ tm.result.refresh_token = None

\* C16: get_tokens() returns and does not raise; with no entry, an entry that
\* cannot be decoded, or a keychain that fails, it returns None and
\* has_tokens() / is_authenticated() return False
C16_LoadNeverRaises ==
    /\ tm.op = "get_tokens"
       => /\ tm.result # Raise
          /\ (tm.arg = NoRec \/ tm.arg = Corrupt \/ tm.fault) => tm.result = NoRec
    /\ (tm.op = "has_tokens" /\ (tm.arg = NoRec \/ tm.arg = Corrupt \/ tm.fault))
       => tm.result = FALSE

\* get_tokens() on an entry that cannot be decoded has returned None
C16_Witness ==
    tm.op = "get_tokens" /\ tm.arg = Corrupt /\ tm.result = NoRec

\* C17: when get_access_token() yields no token, on the first attempt or on a
\* retry, the request fails at once with the no-token error and that attempt
\* makes no network call
C17_NoTokenNoCall ==
    (api.op = "request" /\ api.event # "none" /\ api.token = 0)
    => /\ api.event = "no_token"
       /\ api.pc = "done" /\ api.outcome = "raised"
       /\ api.error = "No valid access token available"
       /\ api.calls = api.attempt

\* the token went away between two attempts: the retry has failed without a call
C17_Witness ==
    /\ api.op = "request" /\ api.event = "no_token"
    /\ api.attempt >= 1 /\ api.calls = api.attempt
    /\ api.outcome = "raised"

\* C18: a 401 response ends the request with the authentication error: one
\* network call for that attempt, no sleep after it, whatever retries remain
C18_UnauthorizedFailsAtOnce ==
    (api.op = "request" /\ api.event = "response" /\ api.response.status = 401)
    => /\ api.pc = "done" /\ api.outcome = "raised"
       /\ api.error = "Authentication failed - token may be expired"
       /\ api.wait = 0
       /\ api.calls = api.attempt + 1
       /\ api.sleeps = api.attempt

\* a 401 on the second attempt, with retries left
C18_Witness ==
    /\ api.op = "request" /\ api.event = "response" /\ api.response.status = 401
    /\ api.attempt = 1 /\ api.attempt < api.max_retries
    /\ api.outcome = "raised"

\* C19: a 429 whose Retry-After is absent or a number of seconds is followed by
\* a sleep of that many seconds (60 if absent) and another attempt, while fewer
\* than max_retries retries were made; the (max_retries+1)-th attempt ending
\* in 429 raises the rate-limit error; a 2xx with a body returns
C19_RateLimitRetry ==
    api.op = "request" =>
      /\ api.attempt <= api.max_retries
      /\ api.calls <= api.max_retries + 1
      /\ (api.event = "response" /\ api.response.status = 429
            /\ api.response.retry_after \in {None, "2"})
         => IF api.calls - 1 < api.max_retries
            THEN /\ api.outcome = "running" /\ api.pc = "headers"
                 /\ api.attempt = api.calls
                 /\ api.wait = IF api.response.retry_after = None THEN 60 ELSE 2
            ELSE /\ api.outcome = "raised" /\ api.pc = "done"
                 /\ api.error = "Rate limit exceeded"
                 /\ api.wait = 0
      /\ (api.event = "response" /\ api.response.status = 200 /\ api.response.json)
         => api.outcome = "returned"

\* max_retries 3: the fourth response is a 429 too, after three sleeps
C19_Witness ==
    /\ api.op = "request" /\ api.event = "response" /\ api.response.status = 429
    /\ api.max_retries = 3 /\ api.calls = 4 /\ api.sleeps = 3
    /\ api.response.retry_after = "2"
    /\ api.error = "Rate limit exceeded"

\* C20: a 503 on attempt a (from 0) is followed by a sleep of min(2^a, 60)
\* seconds and another attempt while a < max_retries; on the last attempt it
\* raises the service-unavailable error
C20_ServiceUnavailableBackoff ==
    (api.op = "request" /\ api.event = "response" /\ api.response.status = 503)
    => LET a == api.calls - 1
       IN  IF a < api.max_retries
           THEN /\ api.outcome = "running" /\ api.pc = "headers"
                /\ api.attempt = a + 1
                /\ api.wait = IF 2^a < 60 THEN 2^a ELSE 60
           ELSE /\ api.outcome = "raised" /\ api.pc = "done"
                /\ api.error = "Microsoft Graph service temporarily unavailable"
                /\ api.wait = 0

\* a 503 on the seventh attempt: 2^6 is 64, the sleep is 60
C20_Witness ==
    /\ api.op = "request" /\ api.event = "response" /\ api.response.status = 503
    /\ api.calls = 7 /\ api.outcome = "running"
    /\ api.wait = 60

\* C21: a network-level failure on attempt a (from 0) is followed by a sleep of
\* min(2^a, 30) seconds and another attempt while a < max_retries; on the
\* (max_retries+1)-th attempt it raises the network error
C21_NetworkErrorBackoff ==
    (api.op = "request" /\ api.event = "response" /\ api.response.raised)
    => LET a == api.calls - 1
       IN  IF a < api.max_retries
           THEN /\ api.outcome = "running" /\ api.pc = "headers"
                /\ api.attempt = a + 1
                /\ api.wait = IF 2^a < 30 THEN 2^a ELSE 30
           ELSE /\ api.outcome = "raised" /\ api.pc = "done"
                /\ api.error = "Network error"
                /\ api.wait = 0
                /\ api.calls = api.max_retries + 1

\* max_retries 3: the fourth attempt fails at network level too
C21_Witness ==
    /\ api.op = "request" /\ api.event = "response" /\ api.response.raised
    /\ api.max_retries = 3 /\ api.calls = 4 /\ api.sleeps = 3
    /\ api.error = "Network error"

\* C22: a 4xx response other than 401 and 429 ends the request at once, with
\* no sleep, in an error that carries the status and the body of the response
C22_ClientErrorCarriesBody ==
    (/\ api.op = "request" /\ api.event = "response"
     /\ api.response.status \in (400..499) \ {401, 429})
    => /\ api.pc = "done" /\ api.outcome = "raised"
       /\ api.wait = 0
       /\ api.calls = api.attempt + 1
       /\ api.sleeps = api.attempt
       /\ api.quoted = [status |-> api.response.status, text |-> api.response.text]

\* C23: when the retries for 429 or 503 are used up, what the caller of
\* search_emails gets is an error of a type of its own, not a plain Exception
C23_ExhaustionIsTyped ==
    (/\ search # NoCall /\ search.pc = "shown"
     /\ api.error \in {"Rate limit exceeded",
                       "Microsoft Graph service temporarily unavailable"})
    => /\ ~search.ok
       /\ search.error.type # "Exception"

\* C24: when the request of a search ended in a 401, one silent token refresh
\* has been attempted between that response and the error shown to the user
C24_RefreshOnceAfter401 ==
    (/\ search # NoCall /\ search.pc = "shown"
     /\ api.event = "response" /\ api.response.status = 401)
    => search.silent = api.silent + 1

\* C27: a search that succeeds shows at most max_results items and none of
\* them has a null subject
C27_SearchCapsAndDefaults ==
    (search # NoCall /\ search.pc = "shown" /\ search.ok)
    => /\ Len(search.emails) <= search.max_results
       /\ \A k \in 1..Len(search.emails) : search.emails[k].subject # None

\* C25: a request handled without an exception leaves, when a code is given,
\* that code and the first value of every parameter given (the state too);
\* else, when an error is given, that error and its description ("" if not
\* given); else the invalid-callback error.  A parameter is given when it has
\* a non-blank value
C25_CallbackOutcome ==
    (http.op = "do_GET" /\ http.fault = "none")
    => LET q == http.query
           given(k) == \E n \in 1..Len(q) : q[n][1] = k /\ q[n][2] # ""
           first(k) == q[CHOOSE n \in 1..Len(q) :
                            /\ q[n][1] = k /\ q[n][2] # ""
                            /\ \A m \in 1..(n - 1) : ~(q[m][1] = k /\ q[m][2] # "")][2]
           s == http.server
       IN  /\ s.callback_received
           /\ IF given("code")
              THEN /\ s.auth_code = first("code")
                   /\ s.auth_error = NoAuthError
                   /\ DOMAIN s.auth_response =
                        {k \in {"code", "error", "error_description", "state"} : given(k)}
                   /\ \A k \in DOMAIN s.auth_response : s.auth_response[k] = first(k)
              ELSE IF given("error")
              THEN /\ s.auth_code = NoCode
                   /\ s.auth_error.error = first("error")
                   /\ s.auth_error.description =
                        IF given("error_description") THEN first("error_description")
                        ELSE ""
              ELSE /\ s.auth_code = NoCode
                   /\ s.auth_error =
                        AuthError("Invalid callback - no authorization code received", "")

\* a request with a code and an error: the code and both parameters are kept
C25_Witness ==
    /\ http.op = "do_GET" /\ http.fault = "none"
    /\ http.query = <<<<"error", "access_denied">>, <<"code", "c1">>>>
    /\ http.server.auth_code = "c1"
    /\ DOMAIN http.server.auth_response = {"code", "error"}

\* C26: every request gets one status line: 200 when a code was given, 400
\* when not, 500 when the handler failed before answering; a failure after
\* the 200 or 400 adds no second one
C26_OneStatusLine ==
    http.op = "do_GET"
    => /\ Len(http.server.statuses) = 1
       /\ http.server.statuses[1] =
            CASE http.fault = "parse" -> 500
              [] http.server.auth_code # NoCode -> 200
              [] OTHER -> 400

\* C28: a login() whose listener could not be started has returned False to
\* its caller without opening the browser, waiting for a callback, exchanging
\* a code or writing the token store
C28_BindFailureAborts ==
    \A i \in Inst :
      hist[i].bind_failed
      => /\ pc[i] = "done" /\ hist[i].outcome = "false"
         /\ login_button[i]
         /\ hist[i].opens = 0 /\ ~hist[i].opened
         /\ ~hist[i].timed_out /\ ~hist[i].callback_error
         /\ hist[i].exchanges = 0
         /\ ~hist[i].stored

\* copy 1 could not bind the port while copy 2's listener holds it
C28_Witness ==
    /\ hist[1].bind_failed /\ port = 2
    /\ pc[1] = "done" /\ hist[1].outcome = "false"

\* C29: a login() that found an error, or no code, in the callback stops the
\* listener and returns False: no exchange, no write of the token store, no
\* second run of the flow
C29_CallbackErrorIsTerminal ==
    \A i \in Inst :
      hist[i].callback_error
      => /\ pc[i] \in {"stop", "done"}
         /\ hist[i].outcome = IF pc[i] = "done" THEN "false" ELSE "running"
         /\ hist[i].exchanges = 0
         /\ ~hist[i].stored
         /\ hist[i].opens = 1 /\ hist[i].starts = 1

\* a login() has returned False after such a callback
C29_Witness ==
    \E i \in Inst :
      /\ hist[i].callback_error /\ pc[i] = "done" /\ hist[i].outcome = "false"
      /\ callback_server[i] = NoServer

\* C30: one login() invocation starts the listener, opens the browser and
\* exchanges a code at most once each
C30_FlowRunsOnce ==
    \A i \in Inst :
      /\ hist[i].starts <= 1
      /\ hist[i].opens <= 1
      /\ hist[i].exchanges <= 1

\* a login() that did all three once and failed at the exchange
C30_Witness ==
    \E i \in Inst :
      /\ pc[i] = "done" /\ hist[i].outcome = "false"
      /\ hist[i].starts = 1 /\ hist[i].opens = 1 /\ hist[i].exchanges = 1


\* C34: one _make_request call makes at most max_retries + 1 network attempts
\* whatever the order of 429, 503 and network failures, every retry of any
\* kind uses up the same counter, the call ends with the body or an error and
\* never by running off the loop without a value, and every call starts with
\* its counters at zero
C34_SharedRetryBudget ==
    api.op = "request"
    => /\ api.calls <= api.max_retries + 1
       /\ api.sleeps = api.attempt
       /\ api.calls \in {api.attempt, api.attempt + 1}
       /\ api.event = "none" => api.attempt = 0 /\ api.calls = 0
       /\ api.pc = "done" => api.outcome \in {"returned", "raised"}
       /\ api.pc # "done" => api.outcome = "running"

\* the second call of a GraphClient uses up its own budget: its fourth attempt
\* meets a 503 after an earlier attempt of the same call failed at network
\* level
C34_Witness ==
    /\ api.op = "request" /\ api.call = 2
    /\ api.calls = api.max_retries + 1 /\ api.pc = "done"
    /\ api.event = "response" /\ api.response.status = 503
    /\ api.last_exception

\* C36: a login() that fails, for whatever reason, leaves the stored token
\* record as it was: the only step of a login() that changes the record is the
\* store_tokens of an invocation whose exchange was sent and gave a token, and
\* that invocation returns True (any other change of the record is a logout,
\* which deletes it)
C36_FailedLoginKeepsRecord ==
    [][store' # store
       => \/ store' = NoRec
          \/ \E i \in Inst :
               /\ pc[i] = "store" /\ pc'[i] = "done"
               /\ hist[i].exchanged /\ result[i] # NoResult
               /\ hist'[i].stored /\ hist'[i].outcome = "true"]_vars

\* the exchange of a login() failed while a record of an earlier run was in
\* the keychain, and the record is still there
C36_Witness ==
    \E i \in Inst :
      /\ pc[i] = "done" /\ hist[i].outcome = "false"
      /\ hist[i].exchanges = 1 /\ ~hist[i].stored
      /\ store # NoRec /\ store.access_token = 1

\* C37: when login() returns True the user is authenticated at that moment:
\* is_authenticated(), which reads the record in the keychain, is true
C37_SuccessMeansAuthenticated ==
    [][\A i \in Inst :
         (hist[i].outcome = "running" /\ hist'[i].outcome = "true")
         => \A st \in {Decode(store')} : is_authenticated(Handled(st), now')]_vars

\* the wait for the callback ends, as long as the clock of the model can still
\* reach the timeout
C31_WaitEnds ==
    (pc[1] = "wait" /\ now + BigStep <= MaxNow) ~> (pc[1] # "wait")

\* C31: the wait for the callback ends, by a callback or by the timeout, and a
\* callback that the listener has handled before the timeout is what the
\* waiting login() goes on with: that wait does not end as a timeout
C31_WaitEndsWithCallback ==
    /\ C31_WaitEnds
    /\ [][hist[1].in_time => ~hist'[1].timed_out]_vars

\* C32: _stop_callback_server raises nothing and leaves no server in whatever
\* state it is called; called when the listener was never started, or again
\* after a stop, it changes nothing: the port stays with whoever listens on it
C32_StopIsSafe ==
    http.op = "stop"
    => /\ ~http.raised
       /\ callback_server[http.inst] = NoServer
       /\ port # http.inst
       /\ http.port_after # http.inst
       /\ http.server = NoServer => http.port_after = http.port

\* copy 1 stops its listener a second time while copy 2 is listening
C32_Witness ==
    /\ http.op = "stop" /\ http.inst = 1 /\ http.server = NoServer
    /\ http.streak = 2
    /\ port = 2 /\ callback_server[2] # NoServer

\* C33: the registry has one row per user_id; a row changes only by a
\* registration of that user, which keeps created_at, sets the token and the
\* expiry of the registration and moves updated_at on; no row is ever deleted
C33_RegistryUpdatesInPlace ==
    /\ [](\A r1 \in user_tokens, r2 \in user_tokens : r1.user_id = r2.user_id => r1 = r2)
    /\ [][\A u \in UserIds :
            LET old == RowsOf(user_tokens, u)
                new == RowsOf(user_tokens', u)
            IN  /\ old # {} => new # {}
                /\ new # old
                   => /\ http'.op = "register" /\ http'.user_id = u /\ http'.status = 200
                      /\ \A n \in new :
                           /\ n.updated_at = now /\ n.user_email = http'.user_email
                           /\ \A o \in old : /\ n.created_at = o.created_at
                                              /\ n.updated_at >= o.updated_at]_vars

\* C38: the search endpoint answers 400 without a user_id, 401 for a user
\* without a row or with a token that is_token_valid (the test of the token
\* store, with its 300 s) rejects at request time, and 200 with that user's own
\* address otherwise
C38_SearchOnlyForValidUser ==
    [][(http'.op = "search" /\ http' # http)
       => LET user_id == http'.user_id
              rows == RowsOf(user_tokens, user_id)
          IN  /\ user_id \in {None, "[undefined]"} <=> http'.status = 400
              /\ http'.status \in {200, 400, 401}
              /\ http'.status = 200
                 <=> \E row \in rows : is_token_valid(row, now)
              /\ http'.status = 200
                 => \A row \in rows : row.user_email = http'.user_email]_vars

\* C35: the wrapper calls the function at most max_retries + 1 times; a value
\* ends it at once, an unlisted exception ends it at once with that exception,
\* every listed exception but the last allowed one is followed by a sleep of
\* delay * backoff^k (k the number of sleeps before), and after max_retries + 1
\* listed exceptions it raises the last of them
C35_RetryOnListedOnly ==
    (api # NoCall /\ api.op = "retry_on_error")
    => LET n == Len(api.calls)
           listed(k) == api.calls[k] \in api.exceptions
       IN  /\ n <= api.max_retries + 1
           /\ \A k \in 1..(n - 1) : listed(k)
           /\ \A k \in 1..Len(api.sleeps) : api.sleeps[k] = api.delay * api.backoff^(k - 1)
           /\ api.pc = "loop" => Len(api.sleeps) = n /\ n <= api.max_retries
           /\ api.pc = "done"
              => /\ n >= 1 /\ Len(api.sleeps) = n - 1
                 /\ api.calls[n] = "value" <=> api.outcome = "returned"
                 /\ api.calls[n] # "value"
                    => /\ api.outcome = "raised" /\ api.error = api.calls[n]
                       /\ listed(n) => n = api.max_retries + 1

\* with max_retries 2 and only NetworkError listed: two NetworkErrors, slept
\* after with delays 3 and 9, then a RateLimitError, which is raised at once
C35_Witness ==
    /\ api # NoCall /\ api.op = "retry_on_error" /\ api.pc = "done"
    /\ api.max_retries = 2 /\ api.exceptions = {"NetworkError"}
    /\ api.calls = <<"NetworkError", "NetworkError", "RateLimitError">>
    /\ api.sleeps = <<3, 9>> /\ api.error = "RateLimitError"

====
